---- MODULE Spec2Model ----
(***************************************************************************)
(* Model of the ov-node OpenVPN management node: the service monitor       *)
(* (health_check, auto_fix_and_restart), the periodic background loop and  *)
(* the user lifecycle operations that drive the interactive installer.     *)
(*                                                                         *)
(* Scheduling: the HTTP handlers and the background task are coroutines    *)
(* of one asyncio event loop, and every monitor / user-management call     *)
(* they make is a blocking synchronous call.  A coroutine therefore runs   *)
(* from one await to the next without interruption: the only await of the  *)
(* background loop is asyncio.sleep(300).                                  *)
(*                                                                         *)
(* External collaborators (systemctl, ss, journalctl, ip, curl, the        *)
(* installer script) are inputs: each call draws its outcome with \E.      *)
(*                                                                         *)
(* Because a handler runs to completion between two awaits, the handlers   *)
(* meet only through the files they leave behind.  The model is checked    *)
(* in two parts that share all definitions: Spec (the background loop and  *)
(* the monitor endpoints) and UserSpec (the user lifecycle endpoints);     *)
(* the initial states of each part range over the shared files, so every   *)
(* state the other part can leave them in is covered.                      *)
(***************************************************************************)
EXTENDS Integers, Sequences, FiniteSets, TLC

\* ------------------------------------------------------------------ bounds
\* number of journal lines a detection pass inspects in the model
MaxLogLines == 2

\* ------------------------------------------------------- program constants
DefaultPort == 1194
DefaultProto == "udp"

max_retries == 3

\* ---------------------------------------------------------------- domains
Procs == {"bg", "api"}

\* an address / a text answer is a sequence of decimal groups:
\* <<192,168,1,10>> is "192.168.1.10"; <<0>> is a reply that is not an address
LoopbackIp == <<127, 0, 0, 1>>
TunnelIp == <<10, 8, 0, 1>>
LanIp == <<192, 168, 1, 10>>
PublicIp == <<203, 0, 113, 5>>
Garbage == <<0>>
NoText == <<>>

\* outcomes of `ip addr show`: "fail" (non-zero exit or timeout) or the
\* addresses of the inet lines, in listing order
IpOutcomes ==
  {[rc |-> "rc0", inet |-> l] :
     l \in {<<>>, <<LoopbackIp>>, <<LoopbackIp, TunnelIp, LanIp>>, <<PublicIp, LanIp>>}}
    \cup {[rc |-> "rc1", inet |-> <<>>], [rc |-> "timeout", inet |-> <<>>]}

\* the server configuration file, by directive.  port = 0 / proto = "" /
\* local.present = FALSE stand for an absent directive; local.value = <<>>
\* for the directive written with no value.
ConfigFile(lp, lv, p, q, d) ==
  [exists |-> TRUE, local |-> [present |-> lp, value |-> lv],
   port |-> p, proto |-> q, dev |-> d]
NoConfig == [exists |-> FALSE, local |-> [present |-> FALSE, value |-> NoText],
             port |-> 0, proto |-> "", dev |-> FALSE]
\* the files the monitor is run against: complete, local without a value,
\* no directive at all, local without a value and nothing else, no file
MonitorConfigs ==
  {ConfigFile(TRUE, LanIp, 1195, "tcp", TRUE),
   ConfigFile(TRUE, NoText, 1195, "tcp", TRUE),
   ConfigFile(FALSE, NoText, 0, "", FALSE),
   ConfigFile(TRUE, NoText, 0, "", FALSE),
   NoConfig}

VARIABLES
  pc,        \* position of each coroutine
  config,    \* /etc/openvpn/server/server.conf
  health,    \* last report returned by health_check to each caller
  af,        \* locals of the running auto_fix_and_restart of each caller
  tick,      \* bookkeeping of the current tick of periodic_health_check
  resp,      \* the answer of the API handler that is running
  template,  \* /etc/openvpn/server/client-common.txt
  certs,     \* names with a certificate under easy-rsa/pki/issued
  profiles,  \* /root/<name>.ovpn, per name
  script,    \* whether /root/openvpn-install.sh exists
  sess,      \* the pexpect session of the running user operation
  cu,        \* locals of the running create_user_on_server
  du,        \* locals of the running delete_user_on_server
  dl,        \* locals of the running download_ovpn_file
  tx,        \* server.conf as text, under repeated fix_openvpn_server_config
  tm,        \* client-common.txt as text, under fix_openvpn_template
  cc,        \* locals and result of the change_config call
  eo         \* locals and result of the ensure_openvpn_running call

vars == <<pc, config, health, af, tick, resp, template, certs, profiles,
          script, sess, cu, du, dl, tx, tm, cc, eo>>

\* what the monitor never touches, and what the user operations never touch
uvars == <<template, certs, profiles, script, sess, cu, du, dl>>
mvars == <<health, af, tick>>
\* the state of the configuration-text repair runs
tvars == <<tx, tm, cc, eo>>

\* ============================================================ the monitor

\* check_service_status: is-active then is-enabled inside one try block
CheckServiceStatus(a, e) ==
  [running |-> (a = "active"),
   enabled |-> (a # "timeout" /\ e = "enabled"),
   active_state |-> IF a = "timeout" THEN "unknown" ELSE a,
   error |-> (a = "timeout" \/ e = "timeout")]

ActiveOutcomes == {"active", "inactive", "timeout"}
EnabledOutcomes == {"enabled", "disabled", "timeout"}

\* get_config_port_protocol
GetConfigPortProtocol(cfg) ==
  [port |-> IF cfg.exists /\ cfg.port # 0 THEN cfg.port ELSE DefaultPort,
   proto |-> IF cfg.exists /\ cfg.proto # "" THEN cfg.proto ELSE DefaultProto]

\* check_port_listening: ss outcome "listed", "unlisted", "fail", "timeout"
SsOutcomes == {"listed", "unlisted", "fail", "timeout"}
CheckPortListening(ss) == (ss = "listed")

\* validate_config_syntax: binary discoverable?, outcome of --test-crypto
TestOutcomes == {"rc0", "rc1", "timeout"}
ValidateConfigSyntax(binary, t) == ~(binary /\ t = "rc1")

Issue(k, p, q) == [kind |-> k, port |-> p, proto |-> q]

\* the report health_check starts from
HealthInit ==
  [healthy |-> FALSE, service_running |-> FALSE, port_listening |-> FALSE,
   config_valid |-> FALSE, issues |-> <<>>, timed_out |-> {}]

HealthyNoConfig(sr, pl, cv) == sr /\ pl

\* the overall verdict of health_check
Healthy(sr, pl, cv) == sr /\ pl /\ cv

HealthIssuesNoConfig(status, pp, listening, valid) ==
  (IF ~status.running THEN <<Issue("not_running", 0, "")>> ELSE <<>>) \o
  (IF ~status.enabled THEN <<Issue("not_enabled", 0, "")>> ELSE <<>>) \o
  (IF ~listening THEN <<Issue("port_not_listening", pp.port, pp.proto)>> ELSE <<>>)

HealthIssuesPortAlways(status, pp, listening, valid) ==
  (IF ~status.running THEN <<Issue("not_running", 0, "")>> ELSE <<>>) \o
  (IF ~status.enabled THEN <<Issue("not_enabled", 0, "")>> ELSE <<>>) \o
  <<Issue("port_not_listening", pp.port, pp.proto)>> \o
  (IF ~valid THEN <<Issue("config_invalid", 0, "")>> ELSE <<>>)

\* the issue list of health_check, in the order the checks are made
HealthIssues(status, pp, listening, valid) ==
  (IF ~status.running THEN <<Issue("not_running", 0, "")>> ELSE <<>>) \o
  (IF ~status.enabled THEN <<Issue("not_enabled", 0, "")>> ELSE <<>>) \o
  (IF ~listening THEN <<Issue("port_not_listening", pp.port, pp.proto)>> ELSE <<>>) \o
  (IF ~valid THEN <<Issue("config_invalid", 0, "")>> ELSE <<>>)

\* the external calls of one health_check that ran into their timeout;
\* is-enabled is not called once is-active has raised, the self-test is
\* not run without a binary
TimedOut(a, e, ss, binary, t) ==
  (IF a = "timeout" THEN {"is_active"} ELSE {}) \cup
  (IF a # "timeout" /\ e = "timeout" THEN {"is_enabled"} ELSE {}) \cup
  (IF ss = "timeout" THEN {"ss"} ELSE {}) \cup
  (IF binary /\ t = "timeout" THEN {"test"} ELSE {})

\* health_check
HealthCheck(cfg, a, e, ss, binary, t) ==
  LET status == CheckServiceStatus(a, e)
      pp == GetConfigPortProtocol(cfg)
      listening == CheckPortListening(ss)
      valid == ValidateConfigSyntax(binary, t)
  IN [healthy |-> Healthy(status.running, listening, valid),
      service_running |-> status.running,
      port_listening |-> listening,
      config_valid |-> valid,
      issues |-> HealthIssues(status, pp, listening, valid),
      timed_out |-> TimedOut(a, e, ss, binary, t)]

\* ------------------------------------------------- auto_fix_and_restart

\* journal lines, by the signatures detect_config_errors looks for
LogLine(o, u, b) == [optLocal |-> o, unrec |-> u, bind |-> b]

RECURSIVE SeqsUpTo(_, _)
SeqsUpTo(S, n) ==
  IF n = 0 THEN {<<>>}
  ELSE LET shorter == SeqsUpTo(S, n - 1)
       IN shorter \cup {Append(q, x) : q \in shorter, x \in S}

\* get_service_logs: [] when journalctl fails or times out
JournalOutcomes ==
  LET LogLines == {LogLine(FALSE, FALSE, FALSE), LogLine(TRUE, FALSE, FALSE),
                   LogLine(TRUE, TRUE, FALSE), LogLine(FALSE, FALSE, TRUE)}
  IN [ok : BOOLEAN, lines : SeqsUpTo(LogLines, MaxLogLines)]
GetServiceLogs(j) == IF j.ok THEN j.lines ELSE <<>>

ConfigError(t) == [type |-> t, severity |-> "critical"]

ErrorsOfLine(l) ==
  (IF l.optLocal THEN <<ConfigError("missing_local_ip")>> ELSE <<>>) \o
  (IF l.unrec THEN <<ConfigError("unrecognized_option")>> ELSE <<>>) \o
  (IF l.bind THEN <<ConfigError("port_binding")>> ELSE <<>>)

\* detect_config_errors
RECURSIVE DetectConfigErrors(_)
DetectConfigErrors(logs) ==
  IF logs = <<>> THEN <<>>
  ELSE ErrorsOfLine(Head(logs)) \o DetectConfigErrors(Tail(logs))

\* get_server_ip_addresses
ServerIps(ipo) ==
  IF ipo.rc = "rc0"
  THEN SelectSeq(ipo.inet, LAMBDA ip : ~(ip[1] = 127) /\ ~(ip[1] = 10 /\ ip[2] = 8))
  ELSE <<>>

\* fix_missing_local_ip: the return value and the file it leaves
FixMissingLocalIp(cfg, ipo) ==
  IF ~cfg.exists THEN [ok |-> FALSE, cfg |-> cfg]
  ELSE IF cfg.local.present /\ cfg.local.value = NoText
  THEN IF ServerIps(ipo) = <<>> THEN [ok |-> FALSE, cfg |-> cfg]
       ELSE [ok |-> TRUE,
             cfg |-> [cfg EXCEPT !.local.value = ServerIps(ipo)[1]]]
  ELSE [ok |-> TRUE, cfg |-> cfg]

\* locals of one invocation, with the result auto_fix_and_restart starts
\* from; log is the history of the external calls it made
AfInit ==
  [status |-> CheckServiceStatus("timeout", "timeout"), i |-> 1,
   result |-> [success |-> FALSE, errors_detected |-> <<>>,
               fixes_applied |-> <<>>, service_running |-> FALSE,
               port_open |-> FALSE],
   restart |-> "none", log |-> <<>>]

Ev(e, ok) == [ev |-> e, ok |-> ok]

AfPcs == {"af_status", "af_detect", "af_patch", "af_enable", "af_restart",
          "af_verify_status", "af_verify_port", "af_return"}

CanRunAlways(c) == TRUE

\* the event loop runs one coroutine at a time: the API handlers run while
\* the background loop is suspended in its sleep, and the loop resumes
\* between two handlers
CanRun(c) ==
  IF c = "api" THEN pc["bg"] = "bg_sleep" ELSE pc["api"] = "idle"

Goto(c, l) == pc' = [pc EXCEPT ![c] = l]

AfNextEnableFirst(p) ==
  CASE p = "af_status" -> "af_detect"
    [] p = "af_detect" -> "af_enable"
    [] p = "af_enable" -> "af_patch"
    [] p = "af_patch" -> "af_restart"
    [] p = "af_verify_status" -> "af_verify_port"
    [] p = "af_verify_port" -> "af_return"

\* the statement order of auto_fix_and_restart
AfNext(p) ==
  CASE p = "af_status" -> "af_detect"
    [] p = "af_detect" -> "af_patch"
    [] p = "af_patch" -> "af_enable"
    [] p = "af_enable" -> "af_restart"
    [] p = "af_verify_status" -> "af_verify_port"
    [] p = "af_verify_port" -> "af_return"

AfterRestartAlwaysVerify(ok) == "af_verify_status"

\* if self.restart_service(): verify ... else: log and return
AfterRestart(ok) == IF ok THEN "af_verify_status" ELSE "af_return"

RecordFixAlways(fixes, id, ok) == Append(fixes, id)

\* if <action succeeded>: result["fixes_applied"].append(id)
RecordFix(fixes, id, ok) == IF ok THEN Append(fixes, id) ELSE fixes

\* 1. snapshot of the current status
AfStatus(c) ==
  /\ pc[c] = "af_status"
  /\ \E a \in ActiveOutcomes, e \in EnabledOutcomes :
       af' = [af EXCEPT ![c] =
                [AfInit EXCEPT !.status = CheckServiceStatus(a, e),
                               !.log = <<Ev("snapshot", TRUE)>>]]
  /\ Goto(c, AfNext("af_status"))
  /\ UNCHANGED <<config, health, tick, resp, uvars, tvars>>

\* 2. detect errors
AfDetect(c) ==
  /\ pc[c] = "af_detect"
  /\ \E j \in JournalOutcomes :
       af' = [af EXCEPT ![c].result.errors_detected =
                          DetectConfigErrors(GetServiceLogs(j)),
                        ![c].i = 1,
                        ![c].log = Append(@, Ev("detect", TRUE))]
  /\ Goto(c, AfNext("af_detect"))
  /\ UNCHANGED <<config, health, tick, resp, uvars, tvars>>

\* the errors the fix loop acts on
NeedsLocalFix(err) == err.type = "missing_local_ip"

\* 3. one iteration of the fix loop
AfPatch(c) ==
  /\ pc[c] = "af_patch"
  /\ af[c].i <= Len(af[c].result.errors_detected)
  /\ IF NeedsLocalFix(af[c].result.errors_detected[af[c].i])
     THEN \E ipo \in IpOutcomes :
            LET r == FixMissingLocalIp(config, ipo)
            IN /\ config' = r.cfg
               /\ af' = [af EXCEPT
                     ![c].i = @ + 1,
                     ![c].result.fixes_applied =
                        RecordFix(@, "fixed_missing_local_ip", r.ok),
                     ![c].log = Append(@, Ev("patch", r.ok))]
     ELSE /\ af' = [af EXCEPT ![c].i = @ + 1]
          /\ UNCHANGED config
  /\ UNCHANGED <<pc, health, tick, resp, uvars, tvars>>

AfPatchDone(c) ==
  /\ pc[c] = "af_patch"
  /\ af[c].i > Len(af[c].result.errors_detected)
  /\ Goto(c, AfNext("af_patch"))
  /\ UNCHANGED <<config, health, af, tick, resp, uvars, tvars>>

\* outcomes of a systemctl enable / restart call
CtlOutcomes == {"rc0", "rc1", "timeout"}
EnableService(o) == (o = "rc0")
RestartService(o) == (o = "rc0")

\* 4. ensure the service is enabled
AfEnable(c) ==
  /\ pc[c] = "af_enable"
  /\ IF ~af[c].status.enabled
     THEN \E o \in CtlOutcomes :
            af' = [af EXCEPT
              ![c].result.fixes_applied =
                 RecordFix(@, "enabled_service", EnableService(o)),
              ![c].log = Append(@, Ev("enable", EnableService(o)))]
     ELSE UNCHANGED af
  /\ Goto(c, AfNext("af_enable"))
  /\ UNCHANGED <<config, health, tick, resp, uvars, tvars>>

\* 5. restart the service
AfRestart(c) ==
  /\ pc[c] = "af_restart"
  /\ \E o \in CtlOutcomes :
       /\ af' = [af EXCEPT
            ![c].result.fixes_applied =
               RecordFix(@, "restarted_service", RestartService(o)),
            ![c].restart = IF RestartService(o) THEN "ok" ELSE "fail",
            ![c].log = Append(@, Ev("restart", RestartService(o)))]
       /\ Goto(c, AfterRestart(RestartService(o)))
  /\ UNCHANGED <<config, health, tick, resp, uvars, tvars>>

\* 6. verify the service is running
AfVerifyStatus(c) ==
  /\ pc[c] = "af_verify_status"
  /\ \E a \in ActiveOutcomes, e \in EnabledOutcomes :
       af' = [af EXCEPT
         ![c].result.service_running = CheckServiceStatus(a, e).running,
         ![c].log = Append(@, Ev("verify_status", CheckServiceStatus(a, e).running))]
  /\ Goto(c, AfNext("af_verify_status"))
  /\ UNCHANGED <<config, health, tick, resp, uvars, tvars>>

FixSuccessRunningOnly(running, open) == running

\* the verdict of auto_fix_and_restart
FixSuccess(running, open) == running /\ open

\* 7. check the port is open
AfVerifyPort(c) ==
  /\ pc[c] = "af_verify_port"
  /\ \E ss \in SsOutcomes :
       af' = [af EXCEPT
         ![c].result.port_open = CheckPortListening(ss),
         ![c].result.success =
            FixSuccess(af[c].result.service_running, CheckPortListening(ss)),
         ![c].log = Append(@, Ev("verify_port", CheckPortListening(ss)))]
  /\ Goto(c, AfNext("af_verify_port"))
  /\ UNCHANGED <<config, health, tick, resp, uvars, tvars>>

AutoFixStep(c) ==
  \/ AfStatus(c) \/ AfDetect(c) \/ AfPatch(c) \/ AfPatchDone(c)
  \/ AfEnable(c) \/ AfRestart(c) \/ AfVerifyStatus(c) \/ AfVerifyPort(c)

\* ============================================== periodic_health_check

\* hc: how the health_check of the tick ended ("none" before it ran,
\* "healthy" / "unhealthy" by the report it returned, "raised")
TickInit == [hc |-> "none", fixCalls |-> 0, raised |-> FALSE]

ShouldFixAlways(h) == TRUE

\* the loop invokes auto-fix on an unhealthy report
ShouldFix(h) == ~h.healthy

\* health_check of the tick returns its report
BgHealthCheck ==
  /\ pc["bg"] = "bg_tick"
  /\ \E a \in ActiveOutcomes, e \in EnabledOutcomes, ss \in SsOutcomes,
        binary \in BOOLEAN, t \in TestOutcomes :
       health' = [health EXCEPT !["bg"] = HealthCheck(config, a, e, ss, binary, t)]
  /\ tick' = [tick EXCEPT !.hc = IF health'["bg"].healthy THEN "healthy" ELSE "unhealthy"]
  /\ Goto("bg", "bg_decide")
  /\ UNCHANGED <<config, af, resp, uvars, tvars>>

\* a residual exception escapes health_check: no report is returned
BgHealthRaise ==
  /\ pc["bg"] = "bg_tick"
  /\ tick' = [tick EXCEPT !.hc = "raised", !.raised = TRUE]
  /\ health' = [health EXCEPT !["bg"] = HealthInit]
  /\ Goto("bg", "bg_except")
  /\ UNCHANGED <<config, af, resp, uvars, tvars>>

\* if not health["healthy"]: attempt auto-fix, else log and fall through
BgDecide ==
  /\ pc["bg"] = "bg_decide"
  /\ IF ShouldFix(health["bg"])
     THEN /\ Goto("bg", "af_status")
          /\ tick' = [tick EXCEPT !.fixCalls = @ + 1]
     ELSE /\ Goto("bg", "bg_sleep")
          /\ UNCHANGED tick
  /\ health' = [health EXCEPT !["bg"] = HealthInit]
  /\ UNCHANGED <<config, af, resp, uvars, tvars>>

\* auto_fix_and_restart returned to the loop: the outcome is logged
BgFixReturned ==
  /\ pc["bg"] = "af_return"
  /\ af' = [af EXCEPT !["bg"] = AfInit]
  /\ Goto("bg", "bg_sleep")
  /\ UNCHANGED <<config, health, tick, resp, uvars, tvars>>

\* a residual exception escapes auto_fix_and_restart
BgFixRaise ==
  /\ pc["bg"] \in AfPcs \ {"af_return"}
  /\ af' = [af EXCEPT !["bg"] = AfInit]
  /\ tick' = [tick EXCEPT !.raised = TRUE]
  /\ Goto("bg", "bg_except")
  /\ UNCHANGED <<config, health, resp, uvars, tvars>>

AfterExceptDead == "bg_dead"

\* where the loop continues after `except Exception`
AfterExcept == "bg_sleep"

\* except Exception as e: logger.error(...)
BgExcept ==
  /\ pc["bg"] = "bg_except"
  /\ Goto("bg", AfterExcept)
  /\ UNCHANGED <<config, health, af, tick, resp, uvars, tvars>>

\* await asyncio.sleep(300) returns and the next tick starts
BgWake ==
  /\ pc["bg"] = "bg_sleep"
  /\ CanRun("bg")
  /\ tick' = TickInit
  /\ Goto("bg", "bg_tick")
  /\ UNCHANGED <<config, health, af, resp, uvars, tvars>>

\* the synchronous part of a tick
BgRun ==
  \/ BgHealthCheck \/ BgHealthRaise \/ BgDecide \/ AutoFixStep("bg")
  \/ BgFixReturned \/ BgFixRaise \/ BgExcept

BgStep == BgRun \/ BgWake


\* ================================== server.conf as text, and its repair

\* bound on the number of lines of the configuration texts that are tried
MaxCfgLines == 3
\* bound on the number of consecutive runs of the repair on one file
MaxRuns == 2

\* The file content is the sequence of its tokens: a word (a maximal run of
\* characters that are not whitespace), a space " " or a newline "\n".
\* Two words are never adjacent.

\* an address as the text `ip addr show` prints
IpText(ip) ==
  CASE ip = LoopbackIp -> "127.0.0.1"
    [] ip = TunnelIp -> "10.8.0.1"
    [] ip = LanIp -> "192.168.1.10"
    [] ip = PublicIp -> "203.0.113.5"
    [] ip = Garbage -> "<html>"
IpWords == {IpText(ip) : ip \in {LoopbackIp, TunnelIp, LanIp, PublicIp}}

\* the words \d+ matches as a whole / those it matches a prefix of
AllDigits(w) == w \in {"1194", "1195", "3"}
StartsWithDigit(w) == AllDigits(w) \/ w \in IpWords
\* the words \w+ matches as a whole / those it matches a prefix of
AllWordChars(w) ==
  AllDigits(w) \/ w \in {"local", "port", "proto", "dev", "verb", "tcp", "udp",
                         "tun", "tap"}

\* "\n".join(lines)
RECURSIVE JoinLines(_)
JoinLines(lines) ==
  IF lines = <<>> THEN <<>>
  ELSE IF Len(lines) = 1 THEN lines[1]
  ELSE lines[1] \o <<"\n">> \o JoinLines(Tail(lines))

\* the tried file contents: up to MaxCfgLines lines, the last one ended by
\* a newline or not, and the complete files.  The lines: local without a
\* value, the same with a trailing space, directives with a value, proto
\* without a value, an empty line, an unrelated directive
ConfigTexts ==
  LET CfgLines ==
        {<<"local">>, <<"local", " ">>, <<"local", " ", "192.168.1.10">>,
         <<"port", " ", "1195">>, <<"proto", " ", "tcp">>, <<"proto">>,
         <<"dev", " ", "tun">>, <<"dev", " ", "tap">>, <<>>, <<"verb", " ", "3">>}
      CompleteTexts ==
        {JoinLines(<<<<"local", " ", "192.168.1.10">>, <<"port", " ", "1195">>,
                     <<"proto", " ", "tcp">>, <<"dev", " ", d>>, <<>>>>) :
           d \in {"tun", "tap"}}
      joined == {JoinLines(ls) : ls \in SeqsUpTo(CfgLines, MaxCfgLines)}
  IN joined \cup {Append(t, "\n") : t \in joined} \cup CompleteTexts

\* $ under re.MULTILINE: the position after token i is the end of a line
AtLineEnd(t, i) == i = Len(t) \/ t[i + 1] = "\n"

\* `^key` followed by whitespace or the end of the line: token i starts a
\* line (^ under re.MULTILINE) and is the word
Directive(t, i, key) == (i = 1 \/ t[i - 1] = "\n") /\ t[i] = key

\* the last token of the longest run of whitespace that follows token i
\* (i itself when none follows): what a greedy \s* or \s+ takes
RECURSIVE WsEnd(_, _)
WsEnd(t, i) ==
  IF i < Len(t) /\ t[i + 1] \in {" ", "\n"} THEN WsEnd(t, i + 1) ELSE i

\* the last token of the line of token i: where a greedy .+ stops
RECURSIVE LineEnd(_, _)
LineEnd(t, i) == IF AtLineEnd(t, i) THEN i ELSE LineEnd(t, i + 1)

Max(S) == CHOOSE x \in S : \A y \in S : y <= x

\* r"^local\s*$" tried at token i: the last token of the match, 0 when it
\* fails.  \s* is greedy and also takes newlines; it gives back until the
\* position is the end of a line
EmptyLocalEnd(t, i) ==
  IF ~Directive(t, i, "local") THEN 0
  ELSE LET K == {k \in i..WsEnd(t, i) : AtLineEnd(t, k)}
       IN IF K = {} THEN 0 ELSE Max(K)

\* r"(^local\s+.+)$" tried at token i.  \s+ takes the whole run of
\* whitespace, newlines included, and .+ the rest of the line of the next
\* word; when the text ends with the run, \s+ gives back until .+ can start
\* at a space
LocalLineEnd(t, i) ==
  IF ~Directive(t, i, "local") \/ WsEnd(t, i) = i THEN 0
  ELSE LET e == WsEnd(t, i)
       IN IF e < Len(t) THEN LineEnd(t, e + 1)
          ELSE LET K == {k \in (i + 1)..(e - 1) : t[k + 1] = " "}
               IN IF K = {} THEN 0 ELSE LineEnd(t, Max(K) + 1)

\* r"(^port\s+\d+)$" tried at token i
PortLineEnd(t, i) ==
  LET e == WsEnd(t, i)
  IN IF /\ Directive(t, i, "port") /\ e > i /\ e < Len(t)
        /\ AllDigits(t[e + 1]) /\ AtLineEnd(t, e + 1)
     THEN e + 1 ELSE 0

\* r"(^proto\s+\w+)$" tried at token i
ProtoLineEnd(t, i) ==
  LET e == WsEnd(t, i)
  IN IF /\ Directive(t, i, "proto") /\ e > i /\ e < Len(t)
        /\ AllWordChars(t[e + 1]) /\ AtLineEnd(t, e + 1)
     THEN e + 1 ELSE 0

\* re.search(r"^local\s*$", config, re.MULTILINE)
HasEmptyLocal(t) == \E i \in 1..Len(t) : EmptyLocalEnd(t, i) > 0
\* re.search(r"^<key>\s+", config, re.MULTILINE)
HasKey(t, key) == \E i \in 1..Len(t) : Directive(t, i, key) /\ WsEnd(t, i) > i
\* re.search(r"^port\s+\d+", config, re.MULTILINE)
HasPort(t) ==
  \E i \in 1..Len(t) :
    /\ Directive(t, i, "port") /\ WsEnd(t, i) > i /\ WsEnd(t, i) < Len(t)
    /\ StartsWithDigit(t[WsEnd(t, i) + 1])
\* re.search(r"^proto\s+\w+", config, re.MULTILINE)
HasProto(t) ==
  \E i \in 1..Len(t) :
    /\ Directive(t, i, "proto") /\ WsEnd(t, i) > i /\ WsEnd(t, i) < Len(t)
    /\ (AllWordChars(t[WsEnd(t, i) + 1]) \/ t[WsEnd(t, i) + 1] \in IpWords)
\* re.search(r"^dev\s+tun", config, re.MULTILINE)
HasDevTun(t) ==
  \E i \in 1..Len(t) :
    /\ Directive(t, i, "dev") /\ WsEnd(t, i) > i /\ WsEnd(t, i) < Len(t)
    /\ t[WsEnd(t, i) + 1] = "tun"

\* r"^<key>\s+.*" and r"^<key>\s+.*$" tried at token i.  \s+ takes the whole
\* run of whitespace, newlines included, and .* the rest of the line of the
\* next word (nothing when the text ends with the run)
KeyLineEnd(t, i, key) ==
  LET e == WsEnd(t, i)
  IN IF ~Directive(t, i, key) \/ e = i THEN 0
     ELSE IF e < Len(t) THEN LineEnd(t, e + 1) ELSE e

\* r"^port\s+\d+" tried at token i (the values that follow port in the
\* tried files are whole numbers, so \d+ takes the whole word)
SetPortEnd(t, i) ==
  LET e == WsEnd(t, i)
  IN IF /\ Directive(t, i, "port") /\ e > i /\ e < Len(t) /\ AllDigits(t[e + 1])
     THEN e + 1 ELSE 0

\* r"^proto\s+\w+" tried at token i
SetProtoEnd(t, i) ==
  LET e == WsEnd(t, i)
  IN IF /\ Directive(t, i, "proto") /\ e > i /\ e < Len(t)
        /\ AllWordChars(t[e + 1])
     THEN e + 1 ELSE 0

\* the substitutions: where the pattern of a fix matches from token i, and
\* what replaces tokens i..j.  "local", "port", "proto", "dev" are the four
\* of fix_openvpn_server_config, "remote" the one fix_openvpn_template and
\* change_config share, "set_*" those of change_config
MatchEnd(fix, t, i) ==
  CASE fix = "local" -> EmptyLocalEnd(t, i)
    [] fix = "port" -> LocalLineEnd(t, i)
    [] fix = "proto" -> PortLineEnd(t, i)
    [] fix = "dev" -> ProtoLineEnd(t, i)
    [] fix = "remote" -> KeyLineEnd(t, i, "remote")
    [] fix = "set_port" -> SetPortEnd(t, i)
    [] fix = "set_proto" -> SetProtoEnd(t, i)
    [] fix = "set_local" -> KeyLineEnd(t, i, "local")

Replacement(fix, t, i, j, ip) ==
  CASE fix = "local" -> <<"local", " ", ip>>
    [] fix = "port" -> SubSeq(t, i, j) \o <<"\n", "port", " ", "1194">>
    [] fix = "proto" -> SubSeq(t, i, j) \o <<"\n", "proto", " ", "udp">>
    [] fix = "dev" -> SubSeq(t, i, j) \o <<"\n", "dev", " ", "tun">>
    [] fix = "remote" -> <<"remote", " ", ip[1], " ", ip[2]>>
    [] fix = "set_port" -> <<"port", " ", ip>>
    [] fix = "set_proto" -> <<"proto", " ", ip>>
    [] fix = "set_local" -> <<"local", " ", ip>>

\* re.sub(pattern, repl, config, flags=re.MULTILINE) from token i on: every
\* match, left to right, without overlap
RECURSIVE ReSub(_, _, _, _)
ReSub(fix, t, i, ip) ==
  IF i > Len(t) THEN <<>>
  ELSE LET j == MatchEnd(fix, t, i)
       IN IF j > 0
          THEN Replacement(fix, t, i, j, ip) \o ReSub(fix, t, j + 1, ip)
          ELSE <<t[i]>> \o ReSub(fix, t, i + 1, ip)

UsableIpsNoTunnelFilter(ipo) ==
  IF ipo.rc = "rc0"
  THEN SelectSeq(ipo.inet, LAMBDA ip : ~(ip[1] = 127))
  ELSE <<>>

\* the addresses of the listing that are neither 127.* nor 10.8.*, in order
UsableIps(ipo) ==
  IF ipo.rc = "rc0"
  THEN SelectSeq(ipo.inet, LAMBDA ip : ~(ip[1] = 127) /\ ~(ip[1] = 10 /\ ip[2] = 8))
  ELSE <<>>

\* fix_openvpn_server_config on the text of an existing file: the text it
\* leaves.  A timeout of `ip addr show` raises and nothing is written
FixConfigText(t, ipo) ==
  IF HasEmptyLocal(t) /\ ipo.rc = "timeout" THEN t
  ELSE LET t1 == IF HasEmptyLocal(t) /\ UsableIps(ipo) # <<>>
                 THEN ReSub("local", t, 1, IpText(UsableIps(ipo)[1]))
                 ELSE t
           t2 == IF HasPort(t1) THEN t1
                 ELSE IF HasKey(t1, "local") THEN ReSub("port", t1, 1, "")
                 ELSE <<"port", " ", "1194", "\n">> \o t1
           t3 == IF HasProto(t2) THEN t2
                 ELSE IF HasKey(t2, "port") THEN ReSub("proto", t2, 1, "")
                 ELSE <<"proto", " ", "udp", "\n">> \o t2
       IN IF HasDevTun(t3) THEN t3
          ELSE IF HasKey(t3, "proto") THEN ReSub("dev", t3, 1, "")
          ELSE <<"dev", " ", "tun", "\n">> \o t3

\* the file (absent, or its text), the host's answer to `ip addr show`,
\* and the texts the runs made so far have left
TxFile(e, t, ipo) ==
  [exists |-> e, orig |-> t, text |-> t, ipo |-> ipo, hist |-> <<>>]

TxInit == TxFile(FALSE, <<>>, [rc |-> "rc1", inet |-> <<>>])

\* one run of fix_openvpn_server_config
TxFix ==
  /\ Len(tx.hist) < MaxRuns
  /\ LET t == IF tx.exists THEN FixConfigText(tx.text, tx.ipo) ELSE tx.text
     IN tx' = [tx EXCEPT !.text = t, !.hist = Append(@, t)]
  /\ UNCHANGED <<pc, config, health, af, tick, resp, uvars, tm, cc, eo>>


\* ============================================ user lifecycle operations

\* what a handler tells its endpoint: the operation and whether it succeeded
Resp(op, ok) == [op |-> op, success |-> ok]
NoResp == Resp("none", FALSE)

UserNames == {"alice"}
\* names a request can carry: a user name, or one that is blank when stripped
RequestNames == UserNames \cup {" "}
IsBlank(n) == n \in {"", " "}

\* a profile / the template, by its remote line: addr = NoText is
\* "remote <port>" with no address, Garbage an address that is not a dotted quad
NoFile == [exists |-> FALSE, addr |-> NoText, port |-> 0]
RemoteFile(a, p) == [exists |-> TRUE, addr |-> a, port |-> p]
RemoteFiles == {RemoteFile(a, 1194) : a \in {NoText, PublicIp, Garbage}}

\* re.match(r'^\d+\.\d+\.\d+\.\d+$', text): four groups of digits
IsDottedQuad(t) == Len(t) = 4

\* outcome of a curl call: the text it printed, NoText when it failed,
\* timed out or printed nothing
CurlOutcomes == {NoText, PublicIp, Garbage}

\* get_public_ip of setting/core.py
GetPublicIp(c1, c2) ==
  IF c1 # NoText THEN c1 ELSE IF c2 # NoText THEN c2 ELSE LoopbackIp

\* fix_openvpn_template: the file it leaves
FixOpenvpnTemplate(t, c1, c2) ==
  IF t.exists /\ t.addr = NoText
  THEN [t EXCEPT !.addr = GetPublicIp(c1, c2)]
  ELSE t

\* fix_openvpn_server_config: the file it leaves.  A timeout of `ip addr`
\* raises inside the function, which then returns without writing
FixOpenvpnServerConfig(cfg, ipo) ==
  IF ~cfg.exists THEN cfg
  ELSE IF cfg.local.present /\ cfg.local.value = NoText /\ ipo.rc = "timeout"
  THEN cfg
  ELSE LET c1 == IF cfg.local.present /\ cfg.local.value = NoText
                      /\ ServerIps(ipo) # <<>>
                 THEN [cfg EXCEPT !.local.value = ServerIps(ipo)[1]]
                 ELSE cfg
           c2 == IF c1.port = 0 THEN [c1 EXCEPT !.port = DefaultPort] ELSE c1
           c3 == IF c2.proto = "" THEN [c2 EXCEPT !.proto = DefaultProto] ELSE c2
       IN IF ~c3.dev THEN [c3 EXCEPT !.dev = TRUE] ELSE c3

\* validate_and_fix_ovpn_file: the return value and the file it leaves
ValidateAndFixOvpnFile(f, c1, ipo) ==
  IF ~f.exists THEN [ok |-> FALSE, file |-> f]
  ELSE IF f.addr = NoText
  THEN LET public_ip ==
             IF c1 # NoText THEN c1
             ELSE IF ServerIps(ipo) # <<>> THEN ServerIps(ipo)[1]
             ELSE NoText
       IN IF public_ip = NoText THEN [ok |-> FALSE, file |-> f]
          ELSE [ok |-> TRUE, file |-> [f EXCEPT !.addr = public_ip]]
  ELSE [ok |-> IsDottedQuad(f.addr), file |-> f]

\* locals of one create_user_on_server call; hadCert / hadProfile are the
\* artifacts found when it was entered, io is the history of the repairs
\* it ran and of the calls it made on the session
CuInit ==
  [name |-> "", retry_count |-> 0, hadCert |-> FALSE, hadProfile |-> FALSE,
   io |-> <<>>]

CuFirstStepCheck == "cu_check"

\* the first statements of create_user_on_server are the two repairs
CuFirstStep == "cu_repair"

Io(op, arg) == [op |-> op, arg |-> arg]

CuLog(e) == cu' = [cu EXCEPT !.io = @ \o e]

\* the handler returns `ok` to the endpoint, which builds its response
CuReturn(ok) ==
  /\ resp' = [op |-> "create_user", success |-> ok]
  /\ Goto("api", IF dl.active THEN "dl_created" ELSE "respond")

ForceCloseNothing(s) == s

\* bash.close(force=True) of the except clauses: kills a session that is open
ForceClose(s) == IF s = "open" THEN "killed" ELSE s

\* POST /sync/create-user: create_user_on_server(name) is entered
ApiCreateUser ==
  /\ pc["api"] = "idle" /\ CanRun("api")
  /\ \E name \in RequestNames :
       cu' = [CuInit EXCEPT !.name = name,
                            !.hadCert = name \in certs,
                            !.hadProfile = (name \in UserNames /\ profiles[name].exists)]
  /\ Goto("api", CuFirstStep)
  /\ UNCHANGED <<config, resp, template, certs, profiles, script, sess, mvars, tvars, du, dl>>

\* fix_openvpn_server_config() and fix_openvpn_template()
CuRepair ==
  /\ pc["api"] = "cu_repair"
  /\ \E ipo \in IpOutcomes : config' = FixOpenvpnServerConfig(config, ipo)
  /\ \E c1 \in CurlOutcomes, c2 \in CurlOutcomes :
       template' = FixOpenvpnTemplate(template, c1, c2)
  /\ CuLog(<<Io("repair", "server_config"), Io("repair", "template")>>)
  /\ Goto("api", "cu_check")
  /\ UNCHANGED <<resp, certs, profiles, script, sess, mvars, tvars, du, dl>>

CuPrecheckSpawnAnyway(name, hasCert, hasProfile, hasScript) ==
  IF IsBlank(name) THEN "fail"
  ELSE IF ~hasScript THEN "fail"
  ELSE "spawn"

\* the checks made before the installer is spawned
CuPrecheck(name, hasCert, hasProfile, hasScript) ==
  IF IsBlank(name) THEN "fail"
  ELSE IF hasCert THEN (IF hasProfile THEN "ok" ELSE "fail")
  ELSE IF ~hasScript THEN "fail"
  ELSE "spawn"

HasProfile(name) == name \in UserNames /\ profiles[name].exists

\* name validation, existing-client check, script check, pexpect.spawn
CuCheck ==
  /\ pc["api"] = "cu_check"
  /\ LET r == CuPrecheck(cu.name, cu.name \in certs, HasProfile(cu.name), script)
     IN IF r = "spawn"
        THEN /\ sess' = "open"
             /\ CuLog(<<Io("spawn", "")>>)
             /\ Goto("api", "cu_menu")
             /\ UNCHANGED resp
        ELSE /\ CuReturn(r = "ok")
             /\ UNCHANGED <<sess, cu>>
  /\ UNCHANGED <<config, template, certs, profiles, script, mvars, tvars, du, dl>>

\* a wait that raised pexpect.TIMEOUT or pexpect.EOF: the except clause
\* force-closes the session and the operation returns False
CuRaised(e) ==
  /\ sess' = ForceClose(sess)
  /\ CuLog(<<e, Io("close", "force")>>)
  /\ CuReturn(FALSE)

\* bash.expect(r"Option:", timeout=90); bash.sendline("1")
CuMenu ==
  /\ pc["api"] = "cu_menu"
  /\ \E o \in {"match", "timeout", "eof"} :
       IF o = "match"
       THEN /\ CuLog(<<Io("expect_menu", o), Io("send", "1")>>)
            /\ Goto("api", "cu_name")
            /\ UNCHANGED <<sess, resp>>
       ELSE CuRaised(Io("expect_menu", o))
  /\ UNCHANGED <<config, template, certs, profiles, script, mvars, tvars, du, dl>>

\* bash.expect([r"Name:", r"invalid name"], timeout=90); bash.sendline(name)
CuName ==
  /\ pc["api"] = "cu_name"
  /\ \E o \in {"name", "invalid", "timeout", "eof"} :
       IF o \in {"name", "invalid"}
       THEN /\ CuLog(<<Io("expect_prompt", o), Io("send", "name")>>)
            /\ Goto("api", "cu_loop")
            /\ UNCHANGED <<sess, resp>>
       ELSE CuRaised(Io("expect_prompt", o))
  /\ UNCHANGED <<config, template, certs, profiles, script, mvars, tvars, du, dl>>

OnNamePromptResend == "resend"

\* index == 0: the script asks for the name again, which is a rejection
OnNamePrompt == "reject"

\* what the installer has left on disk when it reports / ends: the
\* certificate, and the profile f it wrote (or the file that was there)
InstallerCreates(name, f) ==
  /\ certs' = certs \cup {name}
  /\ profiles' = [profiles EXCEPT ![name] = f]

LoopContinuesOneMore(retry_count) == retry_count <= max_retries

\* `while retry_count < max_retries`
LoopContinues(retry_count) == retry_count < max_retries

\* one iteration of the loop
CuLoop ==
  /\ pc["api"] = "cu_loop"
  /\ LoopContinues(cu.retry_count)
  /\ \E o \in {"name", "banner", "eof", "timeout"} :
       CASE o = "name" ->
              IF OnNamePrompt = "reject"
              THEN /\ sess' = "killed"
                   /\ CuLog(<<Io("expect", o), Io("close", "force")>>)
                   /\ CuReturn(FALSE)
                   /\ UNCHANGED <<certs, profiles>>
              ELSE /\ CuLog(<<Io("expect", o), Io("send", "name")>>)
                   /\ UNCHANGED <<pc, sess, resp, certs, profiles>>
         [] o = "banner" ->
              /\ \E f \in RemoteFiles \cup {profiles[cu.name]} :
                    InstallerCreates(cu.name, f)
              /\ CuLog(<<Io("expect", o)>>)
              /\ Goto("api", "cu_banner")
              /\ UNCHANGED <<sess, resp>>
         [] o = "eof" ->
              /\ \/ \E f \in RemoteFiles \cup {profiles[cu.name]} :
                       InstallerCreates(cu.name, f)
                 \/ UNCHANGED <<certs, profiles>>
              /\ sess' = "closed"
              /\ CuLog(<<Io("expect", o), Io("close", "")>>)
              /\ CuReturn(TRUE)
         [] o = "timeout" ->
              IF LoopContinues(cu.retry_count + 1)
              THEN /\ cu' = [cu EXCEPT !.retry_count = @ + 1,
                                       !.io = Append(@, Io("expect", o))]
                   /\ UNCHANGED <<pc, sess, resp, certs, profiles>>
              ELSE /\ sess' = "killed"
                   /\ cu' = [cu EXCEPT !.retry_count = @ + 1,
                                       !.io = @ \o <<Io("expect", o), Io("close", "force")>>]
                   /\ CuReturn(FALSE)
                   /\ UNCHANGED <<certs, profiles>>
  /\ UNCHANGED <<config, template, script, mvars, tvars, du, dl>>

\* index == 1: bash.expect(pexpect.EOF, timeout=10); bash.close(); then the
\* generated profile is looked up and validated
CuBanner ==
  /\ pc["api"] = "cu_banner"
  /\ \E o \in {"eof", "timeout"} :
       IF o = "timeout"
       THEN /\ CuRaised(Io("expect_eof", o))
            /\ UNCHANGED profiles
       ELSE /\ sess' = "closed"
            /\ IF profiles[cu.name].exists
               THEN \E c1 \in CurlOutcomes, ipo \in IpOutcomes :
                      LET r == ValidateAndFixOvpnFile(profiles[cu.name], c1, ipo)
                      IN /\ profiles' = [profiles EXCEPT ![cu.name] = r.file]
                         /\ CuLog(<<Io("expect_eof", o), Io("close", ""),
                                    Io("profile", "found"),
                                    Io("validate", IF r.ok THEN "ok" ELSE "fail")>>)
                         /\ CuReturn(r.ok)
               ELSE /\ CuLog(<<Io("expect_eof", o), Io("close", ""),
                               Io("profile", "missing")>>)
                    /\ CuReturn(FALSE)
                    /\ UNCHANGED profiles
  /\ UNCHANGED <<config, template, certs, script, mvars, tvars, du, dl>>

CreateUserStep == CuRepair \/ CuCheck \/ CuMenu \/ CuName \/ CuLoop \/ CuBanner

\* ---------------------------------------------------- delete_user_on_server

\* bound on the number of clients the installer lists
MaxClients == 2

\* what the list regex captures for a client: its name, possibly followed by
\* the whitespace that ends the line on the pseudo-terminal
ListEntries == {"alice", "alice ", "bob"}
ClientLists == SeqsUpTo(ListEntries, MaxClients)

\* str.strip()
Strip(e) == IF e = "alice " THEN "alice" ELSE e

MatchesNoStrip(entry, name) == entry = name

\* `if user.strip() == name`
Matches(entry, name) == Strip(entry) = name

\* the number listed with the first entry that matches, 0 when none does
RECURSIVE FindUser(_, _, _)
FindUser(list, name, n) ==
  IF n > Len(list) THEN 0
  ELSE IF Matches(list[n], name) THEN n
  ELSE FindUser(list, name, n + 1)

\* locals of one delete_user_on_server call; result is what it returned
DuInit ==
  [name |-> "", list |-> <<>>, listed |-> FALSE, user_number |-> 0,
   hadProfile |-> FALSE, result |-> "none", io |-> <<>>]

DuLog(e) == [du EXCEPT !.io = @ \o e]

\* the handler returns r; the endpoint reports success for any truthy value
DuReturn(d, r) ==
  /\ du' = [d EXCEPT !.result = r]
  /\ resp' = Resp("delete_user", r # "fail")
  /\ Goto("api", "respond")

\* the except clauses: force-close the session, return False
DuRaised(e) ==
  /\ sess' = ForceClose(sess)
  /\ DuReturn(DuLog(<<e, Io("close", "force")>>), "fail")

ToleratedNoMenu == {"header", "confirm"}

\* the expect steps whose pexpect.TIMEOUT is caught and logged, after which
\* the flow continues
Tolerated == {"menu", "header", "confirm"}

\* POST /sync/delete-user: delete_user_on_server(name) is entered
ApiDeleteUser ==
  /\ pc["api"] = "idle" /\ CanRun("api")
  /\ \E name \in RequestNames :
       du' = [DuInit EXCEPT !.name = name, !.hadProfile = HasProfile(name)]
  /\ Goto("api", "du_check")
  /\ UNCHANGED <<config, resp, template, certs, profiles, script, sess, cu, dl,
                 mvars, tvars>>

\* name validation, script check, pexpect.spawn
DuCheck ==
  /\ pc["api"] = "du_check"
  /\ IF IsBlank(du.name) \/ ~script
     THEN /\ DuReturn(du, "fail")
          /\ UNCHANGED sess
     ELSE /\ sess' = "open"
          /\ du' = DuLog(<<Io("spawn", "")>>)
          /\ Goto("api", "du_menu")
          /\ UNCHANGED resp
  /\ UNCHANGED <<config, template, certs, profiles, script, cu, dl, mvars, tvars>>

\* bash.expect(r"Option:|Select an option:", timeout=20); bash.sendline("2")
DuMenu ==
  /\ pc["api"] = "du_menu"
  /\ \E o \in {"match", "timeout", "eof"} :
       IF o = "match" \/ (o = "timeout" /\ "menu" \in Tolerated)
       THEN /\ du' = DuLog(<<Io("expect_menu", o), Io("send", "2")>>)
            /\ Goto("api", "du_header")
            /\ UNCHANGED <<sess, resp>>
       ELSE DuRaised(Io("expect_menu", o))
  /\ UNCHANGED <<config, template, certs, profiles, script, cu, dl, mvars, tvars>>

\* bash.expect("Select the client to revoke", timeout=20)
DuHeader ==
  /\ pc["api"] = "du_header"
  /\ \E o \in {"match", "timeout", "eof"} :
       IF o = "match" \/ (o = "timeout" /\ "header" \in Tolerated)
       THEN /\ du' = DuLog(<<Io("expect_header", o)>>)
            /\ Goto("api", "du_list")
            /\ UNCHANGED <<sess, resp>>
       ELSE DuRaised(Io("expect_header", o))
  /\ UNCHANGED <<config, template, certs, profiles, script, cu, dl, mvars, tvars>>

\* bash.expect("Client:", timeout=20); the list is parsed from bash.before
\* and the number of the client is sent
DuList ==
  /\ pc["api"] = "du_list"
  /\ \E o \in {"match", "timeout", "eof"} :
       CASE o = "match" ->
              \E list \in ClientLists :
                LET n == FindUser(list, du.name, 1)
                    d == [du EXCEPT !.list = list, !.listed = TRUE,
                                    !.user_number = n,
                                    !.io = Append(@, Io("expect_list", o))]
                IN IF n = 0
                   THEN /\ sess' = "killed"
                        /\ DuReturn([d EXCEPT !.io = Append(@, Io("close", "force"))],
                                    "not_found")
                   ELSE /\ du' = [d EXCEPT !.io = Append(@, Io("send", "number"))]
                        /\ Goto("api", "du_confirm")
                        /\ UNCHANGED <<sess, resp>>
         [] o = "timeout" ->
              /\ sess' = "killed"
              /\ DuReturn(DuLog(<<Io("expect_list", o), Io("close", "force")>>), "fail")
         [] o = "eof" -> DuRaised(Io("expect_list", o))
  /\ UNCHANGED <<config, template, certs, profiles, script, cu, dl, mvars, tvars>>

\* bash.expect("Confirm ... revocation", timeout=20); bash.sendline("y")
DuConfirm ==
  /\ pc["api"] = "du_confirm"
  /\ \E o \in {"match", "timeout", "eof"} :
       CASE o = "match" ->
              /\ du' = DuLog(<<Io("expect_confirm", o), Io("send", "y")>>)
              /\ Goto("api", "du_eof")
              /\ UNCHANGED <<sess, resp>>
         [] o = "timeout" /\ "confirm" \in Tolerated ->
              /\ du' = DuLog(<<Io("expect_confirm", o)>>)
              /\ Goto("api", "du_eof")
              /\ UNCHANGED <<sess, resp>>
         [] OTHER -> DuRaised(Io("expect_confirm", o))
  /\ UNCHANGED <<config, template, certs, profiles, script, cu, dl, mvars, tvars>>

\* bash.expect(pexpect.EOF, timeout=120); bash.close(); os.remove(profile).
\* The installer has revoked the certificate only if it was answered; a
\* profile that cannot be removed is logged and left
DuEof ==
  /\ pc["api"] = "du_eof"
  /\ \E o \in {"eof", "timeout"} :
       IF o = "timeout"
       THEN /\ sess' = "killed"
            /\ DuReturn(DuLog(<<Io("expect_eof", o), Io("close", "force")>>), "fail")
            /\ UNCHANGED <<certs, profiles>>
       ELSE /\ sess' = "closed"
            /\ certs' \in {certs} \cup
                 (IF \E n \in 1..Len(du.io) : du.io[n] = Io("send", "y") THEN {certs \ {du.name}} ELSE {})
            /\ IF profiles[du.name].exists
               THEN \E removed \in BOOLEAN :
                      /\ profiles' = IF removed
                                     THEN [profiles EXCEPT ![du.name] = NoFile]
                                     ELSE profiles
                      /\ DuReturn(DuLog(<<Io("expect_eof", o), Io("close", ""),
                                         Io("remove", IF removed THEN "ok" ELSE "error")>>),
                                  "ok")
               ELSE /\ UNCHANGED profiles
                    /\ DuReturn(DuLog(<<Io("expect_eof", o), Io("close", "")>>), "ok")
  /\ UNCHANGED <<config, template, script, cu, dl, mvars, tvars>>

DeleteUserStep == DuCheck \/ DuMenu \/ DuHeader \/ DuList \/ DuConfirm \/ DuEof

\* --------------------------------------------------------- download_ovpn_file

\* locals of one download_ovpn_file call: present is whether the profile
\* existed when it was called, creates counts its create_user_on_server
\* calls, path is whether it returned the path (and not None)
DlInit ==
  [active |-> FALSE, name |-> "", present |-> FALSE, valid |-> FALSE,
   creates |-> 0, created |-> FALSE, path |-> FALSE]

DlAfterCreateExistsOnly(success, exists) == exists

\* `if success and os.path.exists(file_path)`
DlAfterCreate(success, exists) == success /\ exists

\* GET /sync/download/ovpn/{client_name}: download_ovpn_file(name).  A present
\* profile is validated and answered at once; an absent one enters
\* create_user_on_server
ApiDownload ==
  /\ pc["api"] = "idle" /\ CanRun("api")
  /\ \E name \in RequestNames :
       IF HasProfile(name)
       THEN \E c1 \in CurlOutcomes, ipo \in IpOutcomes :
              LET r == ValidateAndFixOvpnFile(profiles[name], c1, ipo)
              IN /\ profiles' = [profiles EXCEPT ![name] = r.file]
                 /\ dl' = [DlInit EXCEPT !.active = TRUE, !.name = name,
                                         !.present = TRUE, !.valid = r.ok,
                                         !.path = r.ok]
                 /\ resp' = Resp("download", r.ok)
                 /\ Goto("api", "respond")
                 /\ UNCHANGED cu
       ELSE /\ dl' = [DlInit EXCEPT !.active = TRUE, !.name = name, !.creates = 1]
            /\ cu' = [CuInit EXCEPT !.name = name,
                                    !.hadCert = name \in certs,
                                    !.hadProfile = FALSE]
            /\ Goto("api", CuFirstStep)
            /\ UNCHANGED <<resp, profiles>>
  /\ UNCHANGED <<config, template, certs, script, sess, du, mvars, tvars>>

\* create_user_on_server has returned to download_ovpn_file, its locals
\* are gone
DlCreated ==
  /\ pc["api"] = "dl_created"
  /\ LET ok == DlAfterCreate(resp.success, HasProfile(dl.name))
     IN /\ dl' = [dl EXCEPT !.created = resp.success, !.path = ok]
        /\ resp' = Resp("download", ok)
  /\ cu' = CuInit
  /\ Goto("api", "respond")
  /\ UNCHANGED <<config, template, certs, profiles, script, sess, du,
                 mvars, tvars>>


\* ======================================================= API handlers


\* GET /sync/openvpn/health
ApiHealth ==
  /\ pc["api"] = "idle" /\ CanRun("api")
  /\ \E a \in ActiveOutcomes, e \in EnabledOutcomes, ss \in SsOutcomes,
        binary \in BOOLEAN, t \in TestOutcomes :
       /\ health' = [health EXCEPT !["api"] = HealthCheck(config, a, e, ss, binary, t)]
       /\ resp' = Resp("health", health'["api"].healthy)
  /\ Goto("api", "respond")
  /\ UNCHANGED <<config, af, tick, uvars, tvars>>

\* the handler returns its ResponseModel and the request is over
ApiRespond ==
  /\ pc["api"] = "respond"
  /\ resp' = NoResp
  /\ health' = [health EXCEPT !["api"] = HealthInit]
  /\ sess' = "none"
  /\ cu' = CuInit
  /\ du' = DuInit
  /\ dl' = DlInit
  /\ Goto("api", "idle")
  /\ UNCHANGED <<config, af, tick, template, certs, profiles, script, tvars>>

\* POST /sync/openvpn/fix
ApiFix ==
  /\ pc["api"] = "idle" /\ CanRun("api")
  /\ Goto("api", "af_status")
  /\ UNCHANGED <<config, health, af, tick, resp, uvars, tvars>>

ApiFixReturned ==
  /\ pc["api"] = "af_return"
  /\ resp' = Resp("fix", af["api"].result.success)
  /\ af' = [af EXCEPT !["api"] = AfInit]
  /\ Goto("api", "respond")
  /\ UNCHANGED <<config, health, tick, uvars, tvars>>

\* POST /sync/openvpn/restart
ApiRestart ==
  /\ pc["api"] = "idle" /\ CanRun("api")
  /\ \E o \in CtlOutcomes : resp' = Resp("restart", RestartService(o))
  /\ Goto("api", "respond")
  /\ UNCHANGED <<config, health, af, tick, uvars, tvars>>

\* a request arrives
ApiRequest == ApiHealth \/ ApiFix \/ ApiRestart

\* a handler that was entered runs to its response
ApiRun == AutoFixStep("api") \/ ApiFixReturned \/ ApiRespond

ApiStep == ApiRequest \/ ApiRun

\* ================================ client-common.txt as text, and its repair

\* bound on the number of lines of the template texts that are tried
MaxTplLines == 3

\* the tried templates, of lines: remote with a port only (one and two
\* spaces), remote with an address, unrelated lines
TemplateTexts ==
  LET TplLines ==
        {<<"remote", " ", "1194">>, <<"remote", " ", " ", "1195">>,
         <<"remote", " ", "203.0.113.5", " ", "1194">>,
         <<"proto", " ", "udp">>, <<"client">>, <<>>}
      joined == {JoinLines(ls) : ls \in SeqsUpTo(TplLines, MaxTplLines)}
  IN joined \cup {Append(t, "\n") : t \in joined}

\* r"^remote\s+\d+$" tried at token i (r"^remote\s{2,}\d+$" matches nothing
\* the first pattern does not): the last token of the match, 0 when it fails
BareRemoteEnd(t, i) ==
  LET e == WsEnd(t, i)
  IN IF /\ Directive(t, i, "remote") /\ e > i /\ e < Len(t)
        /\ AllDigits(t[e + 1]) /\ AtLineEnd(t, e + 1)
     THEN e + 1 ELSE 0

HasBareRemote(t) == \E i \in 1..Len(t) : BareRemoteEnd(t, i) > 0

\* port_match.group(1): the port of the first remote line without address
FirstBarePort(t) ==
  LET i == CHOOSE i \in 1..Len(t) :
             /\ BareRemoteEnd(t, i) > 0
             /\ \A k \in 1..(i - 1) : BareRemoteEnd(t, k) = 0
  IN t[BareRemoteEnd(t, i)]

\* fix_openvpn_template on the text of an existing template: the text it
\* writes; c1, c2 are what the two curl calls answer
FixTemplateText(t, c1, c2) ==
  IF HasBareRemote(t)
  THEN ReSub("remote", t, 1, <<IpText(GetPublicIp(c1, c2)), FirstBarePort(t)>>)
  ELSE t

\* outcomes of `with open(path, "w") as file: file.write(text)`: written;
\* open() raised and the file is as it was; write() raised after open() had
\* truncated the file
Written(old, new, w) ==
  CASE w = "ok" -> new
    [] w = "open_fails" -> old
    [] w = "write_fails" -> <<>>

\* the template (absent, or its text), what the curl calls answer, and
\* whether fix_openvpn_template ran and what it returned
TmFile(e, t, c1, c2) ==
  [exists |-> e, orig |-> t, text |-> t, c1 |-> c1, c2 |-> c2,
   ran |-> FALSE, ok |-> FALSE]

TmInit == TmFile(FALSE, <<>>, NoText, NoText)

\* one run of fix_openvpn_template
TmFix ==
  /\ ~tm.ran
  /\ IF tm.exists /\ HasBareRemote(tm.text)
     THEN \E w \in {"ok", "open_fails", "write_fails"} :
            tm' = [tm EXCEPT
                     !.text = Written(@, FixTemplateText(@, tm.c1, tm.c2), w),
                     !.ran = TRUE, !.ok = (w = "ok")]
     ELSE tm' = [tm EXCEPT !.ran = TRUE, !.ok = tm.exists]
  /\ UNCHANGED <<pc, config, health, af, tick, resp, uvars, tx, cc, eo>>

\* ============================================================ change_config

\* bound on the number of lines of the server configs change_config is tried on
MaxChgLines == 3

\* the server configs tried
ChgTexts ==
  LET ChgLines ==
        {<<"local">>, <<"local", " ", "192.168.1.10">>, <<"port", " ", "1194">>,
         <<"proto", " ", "udp">>, <<"dev", " ", "tun">>, <<"verb", " ", "3">>}
      joined == {JoinLines(ls) : ls \in SeqsUpTo(ChgLines, MaxChgLines)}
  IN joined \cup {Append(t, "\n") : t \in joined}

\* the templates tried
ChgTemplates ==
  {JoinLines(<<<<"client">>, <<"proto", " ", "udp">>,
               <<"remote", " ", "192.168.1.10", " ", "1194">>, <<>>>>),
   JoinLines(<<<<"remote", " ", "1194">>, <<"verb", " ", "3">>, <<>>>>),
   JoinLines(<<<<"client">>, <<>>>>)}

\* the request bodies tried: SetSettingsModel
Requests ==
  {[tunnel_address |-> "203.0.113.5", ovpn_port |-> 1195, protocol |-> "tcp"],
   [tunnel_address |-> "192.168.1.10", ovpn_port |-> 1194, protocol |-> "udp"]}

\* f"{request.ovpn_port}" and int(port_match.group(1))
PortText(n) == CASE n = 1194 -> "1194" [] n = 1195 -> "1195"
PortNumber(w) ==
  CASE w = "1194" -> 1194 [] w = "1195" -> 1195 [] w = "3" -> 3
    [] w = "127.0.0.1" -> 127 [] w = "10.8.0.1" -> 10
    [] w = "192.168.1.10" -> 192 [] w = "203.0.113.5" -> 203

\* the substitutions of change_config on the server config
ChangeConfigText(t, req) ==
  LET t1 == ReSub("set_port", t, 1, PortText(req.ovpn_port))
      t2 == ReSub("set_proto", t1, 1, req.protocol)
  IN ReSub("set_local", t2, 1, req.tunnel_address)

\* the substitutions of change_config on the client template
ChangeTemplateText(t, req) ==
  LET t1 == ReSub("remote", t, 1, <<req.tunnel_address, PortText(req.ovpn_port)>>)
  IN ReSub("set_proto", t1, 1, req.protocol)

\* get_config_port_protocol on the text of the file
GetPortProtoText(t) ==
  LET P == {i \in 1..Len(t) :
              /\ Directive(t, i, "port") /\ WsEnd(t, i) > i /\ WsEnd(t, i) < Len(t)
              /\ StartsWithDigit(t[WsEnd(t, i) + 1])}
      Q == {i \in 1..Len(t) :
              /\ Directive(t, i, "proto") /\ WsEnd(t, i) > i /\ WsEnd(t, i) < Len(t)
              /\ AllWordChars(t[WsEnd(t, i) + 1])}
      First(S) == CHOOSE i \in S : \A k \in S : i <= k
  IN [port |-> IF P = {} THEN DefaultPort
               ELSE PortNumber(t[WsEnd(t, First(P)) + 1]),
      proto |-> IF Q = {} THEN DefaultProto ELSE t[WsEnd(t, First(Q)) + 1]]

ReachesRestartAlways(fail) == TRUE

\* restart_openvpn() is called only when nothing raised before it
ReachesRestart(fail) == fail = "none"

\* locals and result of one change_config call, and what
\* get_config_port_protocol reads afterwards
CcInit ==
  [called |-> FALSE, req |-> [tunnel_address |-> "", ovpn_port |-> 0, protocol |-> ""], fail |-> "none", restart |-> "none",
   ret |-> FALSE, read |-> FALSE, pp |-> [port |-> 0, proto |-> ""]]

\* POST /sync/get-status with set_new_setting: change_config(request).
\* fail is where it raises, if it does: reading / writing the server config,
\* reading / writing the template; restart_openvpn returns nothing and
\* raises nothing, so the return value depends on fail alone
ChangeConfig ==
  /\ ~cc.called
  /\ \E req \in Requests,
        fail \in {"none", "read_cfg", "open_cfg", "write_cfg", "read_tpl",
                  "open_tpl", "write_tpl"} :
     \E r \in IF ReachesRestart(fail) THEN CtlOutcomes ELSE {"none"} :
       /\ tx' = [tx EXCEPT !.text =
                   CASE fail = "read_cfg" -> @
                     [] fail = "open_cfg" -> Written(@, ChangeConfigText(@, req), "open_fails")
                     [] fail = "write_cfg" -> Written(@, ChangeConfigText(@, req), "write_fails")
                     [] OTHER -> Written(@, ChangeConfigText(@, req), "ok")]
       /\ tm' = [tm EXCEPT !.text =
                   CASE fail \in {"read_cfg", "open_cfg", "write_cfg", "read_tpl"} -> @
                     [] fail = "open_tpl" -> Written(@, ChangeTemplateText(@, req), "open_fails")
                     [] fail = "write_tpl" -> Written(@, ChangeTemplateText(@, req), "write_fails")
                     [] OTHER -> Written(@, ChangeTemplateText(@, req), "ok")]
       /\ cc' = [cc EXCEPT !.called = TRUE, !.req = req, !.fail = fail,
                           !.restart = r, !.ret = (fail = "none")]
  /\ UNCHANGED <<pc, config, health, af, tick, resp, uvars, eo>>

\* get_config_port_protocol() after the change
ReadBack ==
  /\ cc.called /\ ~cc.read
  /\ cc' = [cc EXCEPT !.read = TRUE, !.pp = GetPortProtoText(tx.text)]
  /\ UNCHANGED <<pc, config, health, af, tick, resp, uvars, tx, tm, eo>>


\* ================================================== ensure_openvpn_running

\* locals of ensure_openvpn_running: where it is, the external calls it has
\* made with their outcomes, what its probes have verified, and its result
EoInit ==
  [pc |-> "eo_repair", calls |-> <<>>, running |-> FALSE, port_open |-> FALSE,
   ret |-> FALSE]

\* the startup hook: every subprocess call sits in one try block, so a
\* timeout of any of them ends the call with False
EnsureOpenvpnRunning ==
  LET At(l) == eo.pc = l
      Step(l, call, o) == [eo EXCEPT !.pc = l, !.calls = Append(@, Ev(call, o))]
      Return(call, o, r) ==
        [eo EXCEPT !.pc = "eo_done", !.calls = Append(@, Ev(call, o)), !.ret = r]
      \* step 1: fix_openvpn_server_config() and fix_openvpn_template()
      Repair ==
        /\ At("eo_repair")
        /\ \E ipo \in IpOutcomes : config' = FixOpenvpnServerConfig(config, ipo)
        /\ \E c1 \in CurlOutcomes, c2 \in CurlOutcomes :
             template' = FixOpenvpnTemplate(template, c1, c2)
        /\ eo' = [eo EXCEPT !.pc = "eo_enabled"]
      \* step 2: is-enabled, and enable when its exit code is not 0; the
      \* exit code of enable is not looked at
      Enabled ==
        /\ At("eo_enabled")
        /\ \E e \in EnabledOutcomes :
             CASE e = "timeout" -> eo' = Return("is_enabled", e, FALSE)
               [] e = "enabled" -> eo' = Step("eo_restart", "is_enabled", e)
               [] e = "disabled" -> eo' = Step("eo_enable", "is_enabled", e)
        /\ UNCHANGED <<config, template>>
      Enable ==
        /\ At("eo_enable")
        /\ \E o \in CtlOutcomes :
             eo' = IF o = "timeout" THEN Return("enable", o, FALSE)
                   ELSE Step("eo_restart", "enable", o)
        /\ UNCHANGED <<config, template>>
      \* step 3: restart; a non-zero exit code is logged with the journal
      Restart ==
        /\ At("eo_restart")
        /\ \E o \in CtlOutcomes :
             eo' = IF RestartService(o) THEN Step("eo_active", "restart", o)
                   ELSE Return("restart", o, FALSE)
        /\ UNCHANGED <<config, template>>
      \* step 5: is-active after the settle sleep
      Active ==
        /\ At("eo_active")
        /\ \E a \in ActiveOutcomes :
             eo' = IF a = "active"
                   THEN [Step("eo_port", "is_active", a) EXCEPT !.running = TRUE]
                   ELSE Return("is_active", a, FALSE)
        /\ UNCHANGED <<config, template>>
      \* step 6: the port of the config in the output of ss; True is
      \* returned whether it is listed or not
      Port ==
        /\ At("eo_port")
        /\ IF ~config.exists THEN eo' = Return("open_config", "raised", FALSE)
           ELSE \E ss \in SsOutcomes :
                  eo' = IF ss = "timeout" THEN Return("ss", ss, FALSE)
                        ELSE [Return("ss", ss, TRUE) EXCEPT
                                !.port_open = CheckPortListening(ss)]
        /\ UNCHANGED <<config, template>>
  IN /\ Repair \/ Enabled \/ Enable \/ Restart \/ Active \/ Port
     /\ UNCHANGED <<pc, health, af, tick, resp, certs, profiles, script, sess,
                    cu, du, dl, tx, tm, cc>>

\* ================================================================ system

Init ==
  /\ pc = [c \in Procs |-> IF c = "bg" THEN "bg_tick" ELSE "idle"]
  /\ config \in MonitorConfigs
  /\ health = [c \in Procs |-> HealthInit]
  /\ af = [c \in Procs |-> AfInit]
  /\ tick = TickInit
  /\ resp = NoResp
  /\ template = RemoteFile(PublicIp, 1194)
  /\ profiles = [n \in UserNames |-> NoFile]
  /\ certs = {}
  /\ script = TRUE
  /\ sess = "none"
  /\ cu = CuInit
  /\ du = DuInit
  /\ dl = DlInit
  /\ tx = TxInit
  /\ tm = TmInit
  /\ cc = CcInit
  /\ eo = EoInit

Next == BgStep \/ ApiStep

Spec == Init /\ [][Next]_vars

\* the user lifecycle endpoints, served while the background loop sleeps
UserInit ==
  /\ pc = [c \in Procs |-> IF c = "bg" THEN "bg_sleep" ELSE "idle"]
  /\ config \in MonitorConfigs
  /\ health = [c \in Procs |-> HealthInit]
  /\ af = [c \in Procs |-> AfInit]
  /\ tick = TickInit
  /\ resp = NoResp
  /\ template \in RemoteFiles \cup {NoFile}
  /\ profiles \in [UserNames -> RemoteFiles \cup {NoFile}]
  /\ certs \in SUBSET UserNames
  /\ script \in BOOLEAN
  /\ sess = "none"
  /\ cu = CuInit
  /\ du = DuInit
  /\ dl = DlInit
  /\ tx = TxInit
  /\ tm = TmInit
  /\ cc = CcInit
  /\ eo = EoInit

UserNext ==
  \/ ApiCreateUser \/ CreateUserStep
  \/ ApiDeleteUser \/ DeleteUserStep
  \/ ApiDownload \/ DlCreated
  \/ ApiRespond

UserSpec == UserInit /\ [][UserNext]_vars

\* a handler that was entered keeps running: every wait on the session
\* carries a timeout, so each of its steps completes
UserRun == CreateUserStep \/ DeleteUserStep \/ DlCreated \/ ApiRespond

UserFairSpec == UserSpec /\ WF_vars(UserRun)

\* repeated runs of the configuration repair on one file, in one host
\* environment
TextInit ==
  /\ pc = [c \in Procs |-> IF c = "bg" THEN "bg_sleep" ELSE "idle"]
  /\ config = NoConfig
  /\ health = [c \in Procs |-> HealthInit]
  /\ af = [c \in Procs |-> AfInit]
  /\ tick = TickInit
  /\ resp = NoResp
  /\ template = NoFile
  /\ profiles = [n \in UserNames |-> NoFile]
  /\ certs = {}
  /\ script = TRUE
  /\ sess = "none"
  /\ cu = CuInit
  /\ du = DuInit
  /\ dl = DlInit
  /\ \E ipo \in IpOutcomes :
       \/ tx = TxFile(FALSE, <<>>, ipo)
       \/ \E t \in ConfigTexts : tx = TxFile(TRUE, t, ipo)
  /\ tm = TmInit
  /\ cc = CcInit
  /\ eo = EoInit

TextSpec == TextInit /\ [][TxFix]_vars

\* one run of fix_openvpn_template on one template, in one host environment
TemplateInit ==
  /\ pc = [c \in Procs |-> IF c = "bg" THEN "bg_sleep" ELSE "idle"]
  /\ config = NoConfig
  /\ health = [c \in Procs |-> HealthInit]
  /\ af = [c \in Procs |-> AfInit]
  /\ tick = TickInit
  /\ resp = NoResp
  /\ template = NoFile
  /\ profiles = [n \in UserNames |-> NoFile]
  /\ certs = {}
  /\ script = TRUE
  /\ sess = "none"
  /\ cu = CuInit
  /\ du = DuInit
  /\ dl = DlInit
  /\ tx = TxInit
  /\ cc = CcInit
  /\ eo = EoInit
  /\ \E c1 \in CurlOutcomes, c2 \in CurlOutcomes :
       \/ tm = TmFile(FALSE, <<>>, c1, c2)
       \/ \E t \in TemplateTexts : tm = TmFile(TRUE, t, c1, c2)

TemplateSpec == TemplateInit /\ [][TmFix]_vars

\* one change_config call on one pair of files, then the read of the port
\* and protocol the server config carries
ChangeInit ==
  /\ pc = [c \in Procs |-> IF c = "bg" THEN "bg_sleep" ELSE "idle"]
  /\ config = NoConfig
  /\ health = [c \in Procs |-> HealthInit]
  /\ af = [c \in Procs |-> AfInit]
  /\ tick = TickInit
  /\ resp = NoResp
  /\ template = NoFile
  /\ profiles = [n \in UserNames |-> NoFile]
  /\ certs = {}
  /\ script = TRUE
  /\ sess = "none"
  /\ cu = CuInit
  /\ du = DuInit
  /\ dl = DlInit
  /\ cc = CcInit
  /\ eo = EoInit
  /\ \E t \in ChgTexts : tx = TxFile(TRUE, t, [rc |-> "rc1", inet |-> <<>>])
  /\ \E t \in ChgTemplates : tm = TmFile(TRUE, t, NoText, NoText)

ChangeNext == ChangeConfig \/ ReadBack

ChangeSpec == ChangeInit /\ [][ChangeNext]_vars

\* the startup hook, run once before the loop and the endpoints exist
StartupInit ==
  /\ pc = [c \in Procs |-> IF c = "bg" THEN "bg_sleep" ELSE "idle"]
  /\ config \in MonitorConfigs
  /\ health = [c \in Procs |-> HealthInit]
  /\ af = [c \in Procs |-> AfInit]
  /\ tick = TickInit
  /\ resp = NoResp
  /\ template \in RemoteFiles \cup {NoFile}
  /\ profiles = [n \in UserNames |-> NoFile]
  /\ certs = {}
  /\ script = TRUE
  /\ sess = "none"
  /\ cu = CuInit
  /\ du = DuInit
  /\ dl = DlInit
  /\ tx = TxInit
  /\ tm = TmInit
  /\ cc = CcInit
  /\ eo = EoInit

StartupSpec == StartupInit /\ [][EnsureOpenvpnRunning]_vars

\* Scheduling the code guarantees: synchronous code keeps running (every
\* external call carries a timeout), and the event loop resumes the sleeping
\* loop once its timer is due, however many requests keep arriving.
FairSpec == Spec /\ WF_vars(BgRun) /\ WF_vars(ApiRun) /\ SF_vars(BgWake)

\* ================================================================ claims

\* a report of health_check is in the caller's hands
ReportMade(c) ==
  \/ c = "bg" /\ pc["bg"] = "bg_decide"
  \/ c = "api" /\ pc["api"] = "respond" /\ resp.op = "health"

HasIssue(h, k) == \E n \in 1..Len(h.issues) : h.issues[n].kind = k

\* C1: in every report of health_check, healthy is true if and only if
\* service_running, port_listening and config_valid of that report are all true
C1_HealthyIffAll ==
  \A c \in Procs :
    ReportMade(c) =>
      (health[c].healthy <=>
         (health[c].service_running /\ health[c].port_listening
            /\ health[c].config_valid))

C1_Witness ==
  /\ ReportMade("bg")
  /\ health["bg"].service_running /\ health["bg"].port_listening
  /\ ~health["bg"].config_valid /\ ~health["bg"].healthy

\* auto_fix_and_restart of caller c has its result ready to return
AfReturned(c) == pc[c] = "af_return"

EvIndex(log, e) == {n \in 1..Len(log) : log[n].ev = e}
Happened(log, e) == EvIndex(log, e) # {}
\* event e happened after event d and reported ok
OkAfter(log, d, e) ==
  \E m \in EvIndex(log, d), n \in EvIndex(log, e) : m < n /\ log[n].ok
RestartOk(log) == \E n \in EvIndex(log, "restart") : log[n].ok
RestartFailed(log) == \E n \in EvIndex(log, "restart") : ~log[n].ok

\* C2: the result has success = true iff the restart call succeeded and the
\* status probe and the port probe made after it both reported true; and
\* service_running / port_open are the values of those probes
C2_SuccessIffVerified ==
  \A c \in Procs :
    AfReturned(c) =>
      LET r == af[c].result
          log == af[c].log
      IN /\ r.success <=>
              (RestartOk(log) /\ OkAfter(log, "restart", "verify_status")
                 /\ OkAfter(log, "restart", "verify_port"))
         /\ r.service_running <=> OkAfter(log, "restart", "verify_status")
         /\ r.port_open <=> OkAfter(log, "restart", "verify_port")

C2_Witness ==
  \E c \in Procs :
    AfReturned(c) /\ af[c].result.service_running /\ ~af[c].result.port_open
      /\ ~af[c].result.success

InSeq(q, x) == \E n \in 1..Len(q) : q[n] = x

\* C3: when the restart call fails the result has success, service_running
\* and port_open all false, 'restarted_service' is not recorded, and the
\* failed restart is the last external call of the invocation
C3_RestartFailure ==
  \A c \in Procs :
    RestartFailed(af[c].log) =>
      /\ AfReturned(c)
      /\ ~af[c].result.success
      /\ ~af[c].result.service_running
      /\ ~af[c].result.port_open
      /\ ~InSeq(af[c].result.fixes_applied, "restarted_service")
      /\ af[c].log[Len(af[c].log)].ev = "restart"
      /\ ~Happened(af[c].log, "verify_status")
      /\ ~Happened(af[c].log, "verify_port")

C3_Witness ==
  \E c \in Procs : AfReturned(c) /\ RestartFailed(af[c].log)

Rank(e) ==
  CASE e = "snapshot" -> 0
    [] e = "detect" -> 1
    [] e = "patch" -> 2
    [] e = "enable" -> 3
    [] e = "restart" -> 4
    [] e = "verify_status" -> 5
    [] e = "verify_port" -> 6

Count(q, P(_)) == Cardinality({n \in 1..Len(q) : P(q[n])})

\* C4: the external calls of one invocation are made in the order snapshot,
\* detect, patches, enable, restart, verify: patches only after detection
\* (one per missing_local_ip defect), enable only when the snapshot says not
\* enabled and after all patches, exactly one restart on every invocation,
\* verification only after the restart
C4_StepOrder ==
  \A c \in Procs :
    LET log == af[c].log
        errs == af[c].result.errors_detected
    IN /\ \A m, n \in 1..Len(log) : m < n => Rank(log[m].ev) <= Rank(log[n].ev)
       /\ \A e \in {"snapshot", "detect", "enable", "restart",
                     "verify_status", "verify_port"} :
            Cardinality(EvIndex(log, e)) <= 1
       /\ Happened(log, "patch") => Happened(log, "detect")
       /\ Happened(log, "enable") => ~af[c].status.enabled
       /\ Happened(log, "verify_status") => Happened(log, "restart")
       /\ Happened(log, "verify_port") => Happened(log, "verify_status")
       /\ AfReturned(c) =>
            /\ Cardinality(EvIndex(log, "restart")) = 1
            /\ Happened(log, "snapshot") /\ Happened(log, "detect")
            /\ Happened(log, "enable") <=> ~af[c].status.enabled
            /\ Cardinality(EvIndex(log, "patch")) = Count(errs, NeedsLocalFix)

C4_Witness ==
  \E c \in Procs :
    /\ AfReturned(c)
    /\ Happened(af[c].log, "patch") /\ Happened(af[c].log, "enable")
    /\ Happened(af[c].log, "verify_port")

FixId(e) ==
  CASE e = "patch" -> "fixed_missing_local_ip"
    [] e = "enable" -> "enabled_service"
    [] e = "restart" -> "restarted_service"

IsFixEvent(x) == x.ev \in {"patch", "enable", "restart"} /\ x.ok

\* the identifiers of the fix actions of a call history that succeeded
RECURSIVE FixIdsOf(_)
FixIdsOf(log) ==
  IF log = <<>> THEN <<>>
  ELSE (IF IsFixEvent(Head(log)) THEN <<FixId(Head(log).ev)>> ELSE <<>>)
         \o FixIdsOf(Tail(log))

FixRank(id) ==
  CASE id = "fixed_missing_local_ip" -> 0
    [] id = "enabled_service" -> 1
    [] id = "restarted_service" -> 2

\* C5: fixes_applied is, in order, the identifiers of the fix actions that
\* were executed in this invocation and reported success: any number of
\* 'fixed_missing_local_ip', then at most one 'enabled_service', then at
\* most one 'restarted_service'
C5_FixesInOrder ==
  \A c \in Procs :
    LET f == af[c].result.fixes_applied
    IN /\ f = FixIdsOf(af[c].log)
       /\ \A m, n \in 1..Len(f) : m < n => FixRank(f[m]) <= FixRank(f[n])
       /\ Cardinality({n \in 1..Len(f) : f[n] = "enabled_service"}) <= 1
       /\ Cardinality({n \in 1..Len(f) : f[n] = "restarted_service"}) <= 1

C5_Witness ==
  \E c \in Procs :
    /\ AfReturned(c)
    /\ af[c].result.fixes_applied =
         <<"fixed_missing_local_ip", "enabled_service", "restarted_service">>
    /\ \E n \in EvIndex(af[c].log, "patch") : ~af[c].log[n].ok

\* C6: in a tick health_check runs first; auto_fix_and_restart is invoked
\* iff its report is unhealthy, at most once, and before the loop sleeps
C6_TickFixIffUnhealthy ==
  /\ tick.fixCalls <= 1
  /\ tick.hc = "none" <=> pc["bg"] = "bg_tick"
  /\ tick.fixCalls = 1 => tick.hc = "unhealthy"
  /\ pc["bg"] \in AfPcs => tick.fixCalls = 1
  /\ pc["bg"] = "bg_sleep" => (tick.fixCalls = 1 <=> tick.hc = "unhealthy")

C6_Witness ==
  pc["bg"] = "bg_sleep" /\ tick.hc = "unhealthy" /\ tick.fixCalls = 1

\* C7: no tick ends the loop: whatever happened in it, the loop reaches its
\* interval wait, and from the wait another tick starts
C7_LoopNeverTerminates ==
  /\ (pc["bg"] # "bg_sleep") ~> (pc["bg"] = "bg_sleep")
  /\ (pc["bg"] = "bg_sleep") ~> (pc["bg"] = "bg_tick")

C7_Witness == pc["bg"] = "bg_sleep" /\ tick.raised

\* C8: a report has an issue for every failing dimension, so its issue
\* list is not empty when it is unhealthy
C8_IssuePerFailure ==
  \A c \in Procs :
    ReportMade(c) =>
      /\ ~health[c].service_running => HasIssue(health[c], "not_running")
      /\ ~health[c].port_listening => HasIssue(health[c], "port_not_listening")
      /\ ~health[c].config_valid => HasIssue(health[c], "config_invalid")
      /\ ~health[c].healthy => health[c].issues # <<>>

C8_Witness ==
  /\ ReportMade("api")
  /\ health["api"].service_running /\ health["api"].port_listening
  /\ ~health["api"].config_valid
  /\ HasIssue(health["api"], "config_invalid")

\* create_user_on_server has returned to its endpoint
CuDone == pc["api"] \in {"respond", "dl_created"} /\ resp.op = "create_user"

IoIndex(e) == {n \in 1..Len(cu.io) : cu.io[n] = e}

\* C9: a create_user_on_server call that finds a certificate for the name
\* never spawns an installer session, and returns success exactly when the
\* profile of that name exists
C9_ExistingUserNoSession ==
  cu.hadCert =>
    /\ sess = "none"
    /\ IoIndex(Io("spawn", "")) = {}
    /\ CuDone => (resp.success <=> cu.hadProfile)

C9_Witness == CuDone /\ cu.hadCert /\ cu.hadProfile /\ resp.success

\* C10: once the name was sent, a name prompt ends the operation: it
\* returns failure, the session is force-closed right after that wait, and
\* the name was sent exactly once
C10_RepromptIsTerminal ==
  \A n \in IoIndex(Io("expect", "name")) :
    /\ CuDone /\ ~resp.success
    /\ sess = "killed"
    /\ Len(cu.io) = n + 1 /\ cu.io[n + 1] = Io("close", "force")
    /\ Cardinality(IoIndex(Io("send", "name"))) = 1

C10_Witness ==
  /\ CuDone
  /\ IoIndex(Io("expect", "name")) # {}
  /\ IoIndex(Io("expect", "timeout")) # {}

IoCount(op) == Cardinality({n \in 1..Len(cu.io) : cu.io[n].op = op})
\* receipts of the name prompt: the first prompt and the prompts of the loop
NamePrompts ==
  Cardinality(IoIndex(Io("expect_prompt", "name")))
    + Cardinality(IoIndex(Io("expect", "name")))

\* C11 as claimed: a name prompt fails the operation only at its third
\* occurrence, so two receipts of the prompt leave the operation alive
C11_Original ==
  \A n \in IoIndex(Io("expect", "name")) :
    (CuDone /\ ~resp.success) => NamePrompts >= 3

\* C11 (amended): after the name was sent, the first name prompt is
\* terminal failure with no further attempt, so the prompt is received at
\* most twice in a call; the retry count counts only the waits that timed out
C11_SecondPromptTerminal ==
  /\ cu.retry_count = Cardinality(IoIndex(Io("expect", "timeout")))
  /\ cu.retry_count <= 3
  /\ NamePrompts <= 2
  /\ \A n \in IoIndex(Io("expect", "name")) :
       /\ CuDone /\ ~resp.success
       /\ n = Len(cu.io) - 1

C11_Witness ==
  /\ CuDone /\ ~resp.success
  /\ NamePrompts = 2
  /\ cu.retry_count = 2

CuPcs == {"cu_repair", "cu_check", "cu_menu", "cu_name", "cu_loop", "cu_banner"}

\* C12 as claimed: no more than 3 waits are made after the name was sent
C12_Original == IoCount("expect") + IoCount("expect_eof") <= 3

\* C12 (amended): the call always returns; after the name was sent it makes
\* at most 3 waits in the retry loop and at most one more, for end-of-output
\* after the banner; when all 3 loop waits time out it returns failure and
\* force-closes the session
C12_Terminates ==
  /\ [](/\ IoCount("expect") <= 3
        /\ IoCount("expect_eof") <= 1
        /\ Cardinality(IoIndex(Io("expect", "timeout"))) = 3 =>
             /\ CuDone /\ ~resp.success
             /\ sess = "killed"
             /\ cu.io[Len(cu.io)] = Io("close", "force"))
  /\ (pc["api"] \in CuPcs) ~> CuDone

C12_Witness ==
  CuDone /\ ~resp.success /\ Cardinality(IoIndex(Io("expect", "timeout"))) = 3

\* C13: once the banner was seen the call returns success iff the profile
\* exists and its validation succeeds, and it fails for no other reason
C13_BannerOutcome ==
  (CuDone /\ IoIndex(Io("expect", "banner")) # {}) =>
    /\ resp.success <=> IoIndex(Io("validate", "ok")) # {}
    /\ ~resp.success =>
         \/ IoIndex(Io("profile", "missing")) # {}
         \/ IoIndex(Io("validate", "fail")) # {}

\* C14: every call runs the server-config repair and then the template
\* repair first: before any session is spawned, and also when the call then
\* fails on the name, the certificate or the script
C14_RepairFirst ==
  (pc["api"] \in CuPcs \ {"cu_repair"} \/ CuDone) =>
    /\ Len(cu.io) >= 2
    /\ cu.io[1] = Io("repair", "server_config")
    /\ cu.io[2] = Io("repair", "template")
    /\ IoCount("repair") = 2
    /\ \A n \in IoIndex(Io("spawn", "")) : n > 2

C14_Witness ==
  CuDone /\ ~resp.success /\ IsBlank(cu.name) /\ IoCount("repair") = 2

DuDone == pc["api"] = "respond" /\ resp.op = "delete_user"
DuIoIndex(e) == {n \in 1..Len(du.io) : du.io[n] = e}

\* C15: delete returns not-found exactly when the client list was obtained
\* and no listed entry, once trimmed, equals the name; it has then sent
\* neither a client number nor a confirmation, and has force-closed the session
C15_NotFound ==
  DuDone =>
    /\ du.result = "not_found" <=>
         /\ du.listed
         /\ \A n \in 1..Len(du.list) : Strip(du.list[n]) # du.name
    /\ du.result = "not_found" =>
         /\ DuIoIndex(Io("send", "number")) = {}
         /\ DuIoIndex(Io("send", "y")) = {}
         /\ sess = "killed"
         /\ du.io[Len(du.io)] = Io("close", "force")

C15_Witness ==
  DuDone /\ du.result = "not_found" /\ Len(du.list) = 2

\* C16 as claimed: a timeout at the main menu prompt, at the client list or
\* at the end of output makes the call return failure
C16_Original ==
  (/\ DuDone
   /\ \/ DuIoIndex(Io("expect_menu", "timeout")) # {}
      \/ DuIoIndex(Io("expect_list", "timeout")) # {}
      \/ DuIoIndex(Io("expect_eof", "timeout")) # {})
    => du.result = "fail"

\* C16 (amended): a timeout at the client list or at the end of output makes
\* the call return failure; a timeout at the main menu prompt or at the
\* revoke banner is tolerated and the flow goes on to its next step
C16_CriticalTimeouts ==
  /\ (\/ DuIoIndex(Io("expect_list", "timeout")) # {}
      \/ DuIoIndex(Io("expect_eof", "timeout")) # {})
       => (DuDone /\ du.result = "fail" /\ sess = "killed")
  /\ \A n \in DuIoIndex(Io("expect_menu", "timeout")) :
       Len(du.io) > n /\ du.io[n + 1] = Io("send", "2")
  /\ \A n \in DuIoIndex(Io("expect_header", "timeout")) :
       \/ pc["api"] = "du_list" /\ n = Len(du.io)
       \/ Len(du.io) > n /\ du.io[n + 1].op = "expect_list"

C16_Witness ==
  /\ DuDone /\ du.result = "ok"
  /\ DuIoIndex(Io("expect_menu", "timeout")) # {}
  /\ DuIoIndex(Io("expect_header", "timeout")) # {}

\* C17: delete returns success only after it has, in this order, sent the
\* number of the matching client, answered the confirmation prompt with
\* "y", and seen the end of the installer's output
C17_SuccessOrder ==
  (DuDone /\ du.result = "ok") =>
    \E i \in DuIoIndex(Io("send", "number")) :
      \E j \in DuIoIndex(Io("send", "y")) :
        \E k \in DuIoIndex(Io("expect_eof", "eof")) : i < j /\ j < k

DlDone == pc["api"] = "respond" /\ resp.op = "download"

\* C18 as claimed: a profile present at the call is always answered with its
\* path; an absent one leads to one create_user call and to the path exactly
\* when the profile exists afterwards
C18_Original ==
  DlDone =>
    /\ dl.present => (dl.path /\ dl.creates = 0)
    /\ ~dl.present => (dl.creates = 1 /\ (dl.path <=> HasProfile(dl.name)))

\* C18 (amended): a profile present at the call is validated and answered
\* with its path exactly when the validation succeeds, without any
\* create_user call; an absent one leads to one create_user call and to the
\* path exactly when that call reports success and the profile then exists
C18_PathOrNone ==
  DlDone =>
    /\ dl.present => (dl.creates = 0 /\ (dl.path <=> dl.valid))
    /\ ~dl.present =>
         /\ dl.creates = 1
         /\ dl.path <=> (dl.created /\ HasProfile(dl.name))

C18_Witness ==
  DlDone /\ ~dl.present /\ ~dl.path /\ HasProfile(dl.name)

\* the values of the local directives of a text, in order; "" for a
\* directive without a value
LocalValue(t, i) == IF EmptyLocalEnd(t, i) > 0 THEN "" ELSE t[WsEnd(t, i) + 1]
RECURSIVE LocalValuesFrom(_, _)
LocalValuesFrom(t, i) ==
  IF i > Len(t) THEN <<>>
  ELSE IF Directive(t, i, "local")
  THEN <<LocalValue(t, i)>> \o LocalValuesFrom(t, i + 1)
  ELSE LocalValuesFrom(t, i + 1)
LocalValues(t) == LocalValuesFrom(t, 1)

\* the addresses of a listing that are neither loopback nor in 10.8.*
Eligible(l) ==
  {n \in 1..Len(l) : l[n][1] # 127 /\ ~(l[n][1] = 10 /\ l[n][2] = 8)}
FirstEligible(l) == l[CHOOSE n \in Eligible(l) : \A m \in Eligible(l) : n <= m]

TxRan == tx.exists /\ Len(tx.hist) >= 1

\* C19: a second run of the repair, in the same host environment, leaves
\* exactly the content the first run produced
C19_Idempotent ==
  Len(tx.hist) >= 2 => tx.hist[2] = tx.hist[1]

\* what the repair does to a file with an empty local directive when the
\* listing has an eligible address: every empty local directive gets the
\* first such address, every other local directive keeps its value
LocalsFilled ==
  LET before == LocalValues(tx.orig)
      after == LocalValues(tx.hist[1])
  IN /\ Len(after) = Len(before)
     /\ \A n \in 1..Len(before) :
          after[n] = IF before[n] = "" THEN IpText(FirstEligible(tx.ipo.inet))
                     ELSE before[n]

\* C20 as claimed: the empty local directive is set to the first eligible
\* address of the listing, and without such an address the file content
\* is left unchanged
C20_Original ==
  (TxRan /\ HasEmptyLocal(tx.orig)) =>
    IF tx.ipo.rc = "rc0" /\ Eligible(tx.ipo.inet) # {}
    THEN LocalsFilled
    ELSE tx.hist[1] = tx.orig

\* C20 (amended): the empty local directive is set to the first eligible
\* address of the listing; without such an address every local directive
\* is left as it was, and the content is unchanged when port, proto and
\* dev tun are present; when the listing times out the file is untouched
C20_LocalFilled ==
  (TxRan /\ HasEmptyLocal(tx.orig)) =>
    CASE tx.ipo.rc = "rc0" /\ Eligible(tx.ipo.inet) # {} -> LocalsFilled
      [] tx.ipo.rc = "timeout" -> tx.hist[1] = tx.orig
      [] OTHER ->
           /\ LocalValues(tx.hist[1]) = LocalValues(tx.orig)
           /\ (HasPort(tx.orig) /\ HasProto(tx.orig) /\ HasDevTun(tx.orig))
                => tx.hist[1] = tx.orig

C20_Witness ==
  /\ TxRan /\ HasEmptyLocal(tx.orig)
  /\ tx.ipo = [rc |-> "rc0", inet |-> <<LoopbackIp, TunnelIp, LanIp>>]
  /\ LocalValues(tx.orig) = <<"", "192.168.1.10">>
  /\ LocalValues(tx.hist[1]) = <<"192.168.1.10", "192.168.1.10">>

\* C29: an external call of health_check that ran into its timeout is
\* reported as a failure of its step: the service is not running, the port
\* is not listening, the configuration is not valid
C29_TimeoutIsFailure ==
  \A c \in Procs :
    /\ "is_active" \in health[c].timed_out => ~health[c].service_running
    /\ "ss" \in health[c].timed_out => ~health[c].port_listening
    /\ "test" \in health[c].timed_out => ~health[c].config_valid

\* C30: right after detect_config_errors, a missing_local_ip defect is in
\* its result only if the local directive of the configuration file is
\* there without a value
C30_DefectMatchesConfig ==
  \A c \in Procs :
    (/\ pc[c] = "af_patch" /\ af[c].i = 1
     /\ \E n \in 1..Len(af[c].result.errors_detected) :
          af[c].result.errors_detected[n].type = "missing_local_ip")
      => (config.exists /\ config.local.present /\ config.local.value = NoText)

\* the value a directive line carries: the first word after the keyword on
\* its line, "" when there is none
RECURSIVE SkipSpaces(_, _)
SkipSpaces(t, i) ==
  IF i <= Len(t) /\ t[i] = " " THEN SkipSpaces(t, i + 1) ELSE i
KeyValue(t, i) ==
  LET j == SkipSpaces(t, i + 1)
  IN IF j > Len(t) \/ t[j] = "\n" THEN "" ELSE t[j]
RECURSIVE KeyValuesFrom(_, _, _)
KeyValuesFrom(t, key, i) ==
  IF i > Len(t) THEN <<>>
  ELSE IF Directive(t, i, key)
  THEN <<KeyValue(t, i)>> \o KeyValuesFrom(t, key, i + 1)
  ELSE KeyValuesFrom(t, key, i + 1)
KeyValues(t, key) == KeyValuesFrom(t, key, 1)
\* the directive is in the text and each of its lines has a value
Carries(t, key) ==
  /\ KeyValues(t, key) # <<>>
  /\ \A n \in 1..Len(KeyValues(t, key)) : KeyValues(t, key)[n] # ""
ServerKeys == {"local", "port", "proto", "dev"}

\* C21: a file in which local, port, proto and dev each carry a value is
\* left unchanged by the repair, and a directive that carries a value gets
\* no second line and no other value
C21_OnlyAbsentOrEmpty ==
  TxRan =>
    /\ (\A key \in ServerKeys : Carries(tx.orig, key)) => tx.hist[1] = tx.orig
    /\ \A key \in ServerKeys :
         Carries(tx.orig, key) =>
           KeyValues(tx.hist[1], key) = KeyValues(tx.orig, key)

\* ---------------------------------------------------- the template repair

\* the lines of a text
RECURSIVE TextLines(_)
TextLines(t) ==
  IF \A k \in 1..Len(t) : t[k] # "\n" THEN <<t>>
  ELSE LET k == CHOOSE k \in 1..Len(t) :
                  t[k] = "\n" /\ \A m \in 1..(k - 1) : t[m] # "\n"
       IN <<SubSeq(t, 1, k - 1)>> \o TextLines(SubSeq(t, k + 1, Len(t)))
\* a remote line with a port and no address / with an address and a port
IsBareRemote(line) == line # <<>> /\ BareRemoteEnd(line, 1) = Len(line)
IsAddressedRemote(line) ==
  Len(line) = 5 /\ line[1] = "remote" /\ ~AllDigits(line[3])
\* the addresses of the remote lines of a text
RemoteAddrsOf(t) ==
  {TextLines(t)[n][3] : n \in {m \in 1..Len(TextLines(t)) :
                                 IsAddressedRemote(TextLines(t)[m])}}
\* fix_openvpn_template ran on an existing template and wrote what it meant to
TmRepaired == tm.ran /\ tm.exists /\ tm.ok
\* the addresses the template carries after the run and did not carry before
TmNewAddrs == RemoteAddrsOf(tm.text) \ RemoteAddrsOf(tm.orig)

\* C22: after the repair every remote line that had a port and no address
\* reads "remote <resolved address> <its port>", and every remote line that
\* had an address is as it was
C22_RemoteRewrite ==
  TmRepaired =>
    LET a == TextLines(tm.orig)
        b == TextLines(tm.text)
    IN /\ Len(a) = Len(b)
       /\ \A n \in 1..Len(a) :
            /\ IsAddressedRemote(a[n]) => b[n] = a[n]
            /\ IsBareRemote(a[n]) =>
                 b[n] = <<"remote", " ", IpText(GetPublicIp(tm.c1, tm.c2)),
                          " ", a[n][Len(a[n])]>>

\* C23: every address the template repair writes is the answer of one of
\* the two resolution calls of that run, and when neither call answers the
\* template is left as it was
C23_AddressFromHost ==
  TmRepaired =>
    /\ TmNewAddrs \subseteq {IpText(c) : c \in {tm.c1, tm.c2} \ {NoText}}
    /\ (tm.c1 = NoText /\ tm.c2 = NoText) => tm.text = tm.orig

\* C24: an answer of a resolution service that is not a dotted quad is never
\* written into the template, and when the first service gives such an
\* answer and the second a dotted quad, the second's is the one written
C24_DottedQuadOnly ==
  TmRepaired =>
    /\ \A c \in {tm.c1, tm.c2} \ {NoText} :
         IpText(c) \in TmNewAddrs => IsDottedQuad(c)
    /\ (~IsDottedQuad(tm.c1) /\ IsDottedQuad(tm.c2)) =>
         TmNewAddrs \subseteq {IpText(tm.c2)}

\* ------------------------------------------------------------ change_config

\* the lines of a text that do not start with one of the given directives
OtherLines(t, keys) ==
  SelectSeq(TextLines(t), LAMBDA line : line = <<>> \/ line[1] \notin keys)
\* the change_config call raised while reading or writing the template
TemplateStepFailed == cc.called /\ cc.fail \in {"read_tpl", "open_tpl", "write_tpl"}

\* C25: after a change_config that returned success, get_config_port_protocol
\* yields the port and the protocol of the request
C25_RoundTrip ==
  (cc.read /\ cc.ret) =>
    cc.pp = [port |-> cc.req.ovpn_port, proto |-> cc.req.protocol]

\* C26: change_config returns success only when no file operation failed and
\* the restart command was run and exited with 0
C26_FailureReported ==
  (cc.called /\ cc.ret) => (cc.fail = "none" /\ cc.restart = "rc0")

\* C27 as stated: when the template step fails after the server config was
\* written, the call returns failure, the server config has its new
\* content, the template is as it was and no restart is issued
C27_Original ==
  TemplateStepFailed =>
    /\ ~cc.ret
    /\ tx.text = ChangeConfigText(tx.orig, cc.req)
    /\ tm.text = tm.orig
    /\ cc.restart = "none"

\* C27: when the template step fails after the server config was written,
\* the call returns failure, the server config has its new content and no
\* restart is issued; the template is as it was when reading or opening it
\* failed, and as it was or empty when writing it failed
C27_NoRollback ==
  TemplateStepFailed =>
    /\ ~cc.ret
    /\ tx.text = ChangeConfigText(tx.orig, cc.req)
    /\ cc.restart = "none"
    /\ cc.fail # "write_tpl" => tm.text = tm.orig
    /\ cc.fail = "write_tpl" => tm.text \in {tm.orig, <<>>}

\* a template write failed after a server config write that changed the file
C27_Witness ==
  /\ cc.called /\ cc.fail = "write_tpl" /\ ~cc.ret
  /\ tx.text # tx.orig /\ tm.text # tm.orig

\* C28: after a change_config that returned success, the lines of the server
\* config other than local, port, proto and dev, and the lines of the
\* template other than remote and proto, are the ones the files had before,
\* in the same order
C28_OtherLinesKept ==
  (cc.called /\ cc.ret) =>
    /\ OtherLines(tx.text, ServerKeys) = OtherLines(tx.orig, ServerKeys)
    /\ OtherLines(tm.text, {"remote", "proto"}) =
         OtherLines(tm.orig, {"remote", "proto"})

\* --------------------------------------------- detection, overlap, reports

IsMissingLocal(err) == err.type = "missing_local_ip"
IsLocalFix(id) == id = "fixed_missing_local_ip"

\* C31: the defects detect_config_errors returns hold at most one of kind
\* missing_local_ip, however many journal lines carry the signature
C31_OneDefect ==
  \A c \in Procs : Count(af[c].result.errors_detected, IsMissingLocal) <= 1

\* a tick of the background loop is under way while an API handler is
Overlap == pc["bg"] # "bg_sleep" /\ pc["api"] # "idle"

\* C32 as stated: the steps of a tick and of an API handler interleave
C32_Original == <>Overlap

\* C32: a tick of the background loop and an API handler never overlap:
\* each runs from its start to its end before the other starts
C32_Serialised == ~Overlap

\* an API restart is issued after the auto-fix round of a tick has ended
C32_Witness ==
  /\ pc["bg"] = "bg_sleep" /\ tick.fixCalls = 1
  /\ pc["api"] = "respond" /\ resp.op = "restart"

\* C38 as stated: a healthy report has no issue
C38_Original ==
  \A c \in Procs : (ReportMade(c) /\ health[c].healthy) => health[c].issues = <<>>

\* C38: every issue of a report is that of a failing dimension or the one
\* for a service that is not enabled, so a healthy report has no issue but,
\* possibly, the latter
C38_HealthyIssues ==
  \A c \in Procs :
    ReportMade(c) =>
      /\ HasIssue(health[c], "not_running") => ~health[c].service_running
      /\ HasIssue(health[c], "port_not_listening") => ~health[c].port_listening
      /\ HasIssue(health[c], "config_invalid") => ~health[c].config_valid
      /\ health[c].healthy =>
           \A n \in 1..Len(health[c].issues) :
             health[c].issues[n].kind = "not_enabled"

\* a healthy report that carries the issue of a service not enabled
C38_Witness ==
  /\ ReportMade("api") /\ health["api"].healthy
  /\ HasIssue(health["api"], "not_enabled")

\* C39: an invocation records fixed_missing_local_ip only in a step that
\* changes the local directive of the server config, and at most once
C39_FixMeansChange ==
  [][\A c \in Procs :
       /\ Count(af'[c].result.fixes_applied, IsLocalFix) <= 1
       /\ Count(af'[c].result.fixes_applied, IsLocalFix) >
            Count(af[c].result.fixes_applied, IsLocalFix)
          => config'.local # config.local]_vars

\* ------------------------------------------------------- the startup hook

EoCalled(call) == \E n \in 1..Len(eo.calls) : eo.calls[n].ev = call
EoDone == eo.pc = "eo_done"

\* C33: the startup hook returns true only with the service verified to run
\* and the port verified to be open, and after a failed restart call it
\* returns false without an is-active or ss call
C33_TrueMeansVerified ==
  EoDone =>
    /\ eo.ret => (eo.running /\ eo.port_open)
    /\ (\E n \in 1..Len(eo.calls) :
          eo.calls[n].ev = "restart" /\ eo.calls[n].ok # "rc0")
         => (~eo.ret /\ ~EoCalled("is_active") /\ ~EoCalled("ss"))

\* ------------------------------------------- outcomes of the user operations

\* C34: when create_user_on_server returns success, the profile of the
\* name is on disk
C34_SuccessHasProfile ==
  (CuDone /\ resp.success) => HasProfile(cu.name)

\* C35: when create_user_on_server returns failure, the installer has not
\* reported the creation of the user during the call, and the certificates
\* are those there were when the call started
C35_FailureCreatesNothing ==
  (CuDone /\ ~resp.success) =>
    /\ IoCount("expect") = Cardinality({n \in 1..Len(cu.io) :
                                          cu.io[n].op = "expect" /\ cu.io[n].arg # "banner"})
    /\ (~cu.hadCert => cu.name \notin certs)

DuSpawns == Cardinality({n \in 1..Len(du.io) : du.io[n].op = "spawn"})

\* C36: when create_user_on_server or delete_user_on_server has returned,
\* no session is open, and the call has spawned at most one
C36_NoSessionLeft ==
  /\ (CuDone \/ DuDone) => sess # "open"
  /\ IoCount("spawn") <= 1 /\ DuSpawns <= 1

\* a create call has returned failure after one of its waits timed out, the
\* one session it spawned killed
C36_Witness ==
  /\ CuDone /\ ~resp.success /\ IoCount("spawn") = 1 /\ sess = "killed"
  /\ \E n \in 1..Len(cu.io) : cu.io[n].arg = "timeout"

\* C37: the delete-user endpoint answers success only when
\* delete_user_on_server returned True and the user's certificate is revoked
C37_SuccessMeansRevoked ==
  (DuDone /\ resp.success) => (du.result = "ok" /\ du.name \notin certs)

====
